---- MODULE Spec2Model ----
(***************************************************************************)
(* A model of the shop back office: the stock ledger with its optimistic   *)
(* updated_at token, the cart and order workflows of the service, the      *)
(* transaction manager, and the event pipeline.                            *)
(*                                                                         *)
(* The relational store is modelled as tables of rows.  A workflow runs in *)
(* three steps: BeginTx opens the transaction and fixes its NOW(),         *)
(* Snapshot is its first statement, which takes the snapshot (REPEATABLE   *)
(* READ), and the workflow's own action runs the body against that         *)
(* snapshot and ends the transaction.  A row the body updates that another *)
(* transaction has changed since the snapshot makes the statement fail     *)
(* (serialization failure); a failed statement aborts the transaction, and *)
(* COMMIT of an aborted transaction rolls it back.                         *)
(*                                                                         *)
(* The stock repository reads through its cache (stock:<id>); the cache is *)
(* shared by all callers and is not transactional.  The cart and order     *)
(* repositories are modelled on their store path.  The schema the store    *)
(* runs is not fixed by the repository (the migration lacks tables and     *)
(* status values the code uses), so a statement is either carried out with *)
(* the values the code passes or refused by the store (a fault).           *)
(***************************************************************************)
EXTENDS Integers, Sequences, FiniteSets, TLC

\* ---------------------------------------------------------------- bounds
MaxClock == 4      \* transactions begun in one behaviour (NOW() values)
MaxRetries == 2    \* the largest maxRetries of ExecuteTransactionWithRetry
MaxItems == 1      \* extra items of one AddItemsToCart call beyond the first
PoolSize == 2      \* the size NewWorkerPool is called with
MaxTasks == 3      \* events handed to Submit in one behaviour
TasksCap == 1      \* capacity of the tasks channel (1000 in NewWorkerPool)

Procs == {"p1", "p2"}
Customers == {"c1", "c2"}
StockIds == {1, 2}
CartIdInputs == {1, 2}
OrderIdInputs == {1}

\* ------------------------------------------------------------ enumerations
CartStatusActive == "active"
CartStatusConverted == "converted"
CartStatuses == {"active", "abandoned", "converted"}

OrderStatusPending == "pending"
OrderStatusProcessing == "processing"
OrderStatusCompleted == "completed"
OrderStatusCancelled == "cancelled"
OrderStatusRefunded == "refunded"
OrderStatusPartiallyRefunded == "partially_refunded"
OrderStatusPaid == "paid"
OrderStatusFailed == "failed"
OrderStatusAwaitingStock == "awaiting_stock"
OrderStatusDispute == "dispute"

OrderStatuses ==
  { OrderStatusPending, OrderStatusProcessing, OrderStatusCompleted,
    OrderStatusCancelled, OrderStatusRefunded, OrderStatusPartiallyRefunded,
    OrderStatusPaid, OrderStatusFailed, OrderStatusAwaitingStock,
    OrderStatusDispute }

StockMovementTypeIn == "in"
StockMovementTypeOut == "out"
StockMovementTypeReserve == "reserve"
StockMovementTypeRelease == "release"

StockMovementReferenceTypeCart == "cart"
StockMovementReferenceTypeOrder == "order"

\* ------------------------------------------------------------------ inputs
\* The items a caller may hand to AddItemsToCart.  The caller supplies every
\* field, the subtotal included.
ItemInputs ==
  { [productId |-> "prodA", priceId |-> "priceA", stockId |-> 1,
     quantity |-> 3, unitPrice |-> 2, subtotal |-> 6],
    [productId |-> "prodB", priceId |-> "priceB", stockId |-> 2,
     quantity |-> 1, unitPrice |-> 5, subtotal |-> 4] }

ItemLists ==
  UNION { [1..n -> ItemInputs] : n \in 1..(MaxItems + 1) }

\* The carts AddItemsToCart is called for: customer c1 with its active cart,
\* and customer c2, who has no cart, with the converted cart.
CartTargets ==
  { [customerID |-> "c1", cartID |-> 2],
    [customerID |-> "c2", cartID |-> 1] }

\* Store faults: the repository call that fails with a store error.
Faults ==
  { "none", "GetCart", "ListCartItems", "AddCartItem", "UpdateCartItem",
    "CreateCart", "UpdateCartStatus", "GetOrder", "CreateOrder",
    "AddOrderItems", "ListOrderItems", "UpdateOrderStatus", "GetStock",
    "AdjustStock", "ReduceStock", "CreateStockMovements" }

\* ------------------------------------------------------------------- state
VARIABLES
  db,      \* the committed rows of the relational store
  cache,   \* the stock repository's cache: stock id -> cached row or NoEntry
  clock,   \* the store's clock
  pc,      \* per caller: "idle", "lookup" (ProcessEvent has looked the event
           \* up), "begun" (BEGIN sent) or "running" (snapshot taken)
  call,    \* per caller: the call in progress, or the last one made
  txNow,   \* per caller: NOW() of its transaction, the time of its BEGIN
  snap,    \* per caller: the snapshot of its transaction
  ret,     \* per caller: what the last finished call returned, and the
           \* clock when it returned
  handlerRuns, \* per event id: how often its handler has been invoked
  wp,      \* the worker pool: its channels, workers, tasks and Shutdown
  handlers, \* the event manager's handlers: the event types with a handler
  tm       \* the call of ExecuteTransactionWithRetry in progress

vars ==
  <<db, cache, clock, pc, call, txNow, snap, ret, handlerRuns, wp, handlers,
    tm>>

NoEntry == [quantity |-> -1, reservedQuantity |-> -1, updatedAt |-> -1]

InitStocks ==
  (1 :> [quantity |-> 10, reservedQuantity |-> 0, updatedAt |-> 1]) @@
  (2 :> [quantity |-> 1, reservedQuantity |-> 0, updatedAt |-> 1])

\* The rows the store holds when the service starts: two stock rows; for
\* customer c1 a converted cart with the pending order made from it, and an
\* active cart.
InitDb ==
  [ stocks |-> InitStocks,
    movements |-> {},
    carts |-> { [id |-> 1, customerId |-> "c1",
                 status |-> CartStatusConverted],
                [id |-> 2, customerId |-> "c1",
                 status |-> CartStatusActive] },
    cartItems |-> {},
    orders |-> { [id |-> 1, customerId |-> "c1", cartId |-> 1,
                  status |-> OrderStatusPending, paymentIntent |-> 1] },
    orderItems |-> { [id |-> 1, orderId |-> 1, productId |-> "prodA",
                      priceId |-> "priceA", stockId |-> 1, quantity |-> 3,
                      unitPrice |-> 2, subtotal |-> 6] },
    events |-> {} ]

\* The entry points of the transaction manager: the isolation level of the
\* transaction and the maxRetries of the retry loop (0: no loop).
ExecuteTransaction == [isoLevel |-> "RepeatableRead", maxRetries |-> 0]
ExecuteSerializableTransaction ==
  [isoLevel |-> "Serializable", maxRetries |-> 3]
NoProfile == [isoLevel |-> "", maxRetries |-> 0]

\* The entry point a workflow or handler hands its body to: each of them
\* calls ExecuteTransaction.
ProfileOf(op) == ExecuteTransaction

NoCall == [op |-> "none"]
NoRet == [op |-> "none", err |-> "", committed |-> FALSE, skipped |-> {},
          id |-> 0, end |-> 0, profile |-> NoProfile]

\* ------------------------------------------------------------- transactions
\* The state of one transaction while its body runs.
\*   s: the snapshot, w: the snapshot with the body's own writes,
\*   g: the committed rows, now: NOW(), fault: the injected store fault,
\*   err: the error the body is returning, aborted: a statement has failed,
\*   skipped: stock ids whose UPDATE matched no row.
NewTx(snapshot, committed, c, now, fault) ==
  [ s |-> snapshot, w |-> snapshot, g |-> committed, cache |-> c,
    now |-> now, fault |-> fault, err |-> "", aborted |-> FALSE,
    skipped |-> {}, id |-> 0 ]

Fail(t, e) == [t EXCEPT !.err = e]
Abort(t, e) == [t EXCEPT !.err = e, !.aborted = TRUE]
Faulty(t, name) == t.fault = name

SetMax(S) == IF S = {} THEN 0 ELSE CHOOSE x \in S : \A y \in S : y <= x

\* The next value of a table's SERIAL id.
NextId(t, table) ==
  1 + SetMax({r.id : r \in t.g[table] \cup t.w[table]})

\* ------------------------------------------------------------ stock ledger
\* uint64 subtraction: a difference below zero wraps to a value larger than
\* any quantity (the largest integer of the checker stands for 2^64).
Uint64Sub(a, b) == IF a >= b THEN a - b ELSE (a - b) + 2147483647

\* The three guarded UPDATE statements, as the row they write.
AdjustStockSQL(row, n, now) ==
  [row EXCEPT !.reservedQuantity = @ + n, !.updatedAt = now]

ReleaseStockSQL(row, n, now) ==
  [row EXCEPT !.reservedQuantity = @ - n, !.updatedAt = now]

ReduceStockSQL(row, n, now) ==
  [row EXCEPT !.quantity = @ - n, !.reservedQuantity = @ - n,
              !.updatedAt = now]

\* GetStock: the cached row when there is one, else the row the transaction
\* sees, which is then cached.
GetStock(t, stockID) ==
  IF t.cache[stockID] # NoEntry
    THEN [t |-> t, stock |-> t.cache[stockID]]
    ELSE IF t.aborted \/ Faulty(t, "GetStock")
      THEN [t |-> Abort(t, "get stock failed"), stock |-> NoEntry]
      ELSE [t |-> [t EXCEPT !.cache[stockID] = t.w.stocks[stockID]],
            stock |-> t.w.stocks[stockID]]

\* updateStockCache: GetStock outside the transaction, then Set.  A cached
\* row is written back as it is; on a miss the committed row is cached.
updateStockCache(t, stockID) ==
  IF t.cache[stockID] # NoEntry
    THEN t
    ELSE [t EXCEPT !.cache[stockID] = t.g.stocks[stockID]]

\* One statement of a stock batch and its result callback.  kind names the
\* query; param is [stockId, quantity, lastUpdated].  An UPDATE that matches
\* no row is no error for the batch.
StockRowAfter(kind, row, n, now) ==
  CASE kind = "AdjustStock" -> AdjustStockSQL(row, n, now)
    [] kind = "ReleaseStock" -> ReleaseStockSQL(row, n, now)
    [] OTHER -> ReduceStockSQL(row, n, now)

ExecStockUpdate(t, kind, param) ==
  LET id == param.stockId
      row == t.w.stocks[id]
  IN IF t.aborted \/ Faulty(t, kind)
       THEN Abort(t, "stock batch failed")
     ELSE IF row.updatedAt # param.lastUpdated
       THEN updateStockCache([t EXCEPT !.skipped = @ \cup {id}], id)
     ELSE IF t.g.stocks[id] # t.s.stocks[id]
       THEN Abort(t, "could not serialize access")
     ELSE updateStockCache(
            [t EXCEPT !.w.stocks[id] =
                         StockRowAfter(kind, row, param.quantity, t.now)],
            id)

RECURSIVE StockBatch(_, _, _, _)
StockBatch(t, kind, params, i) ==
  IF i > Len(params) THEN t
  ELSE StockBatch(ExecStockUpdate(t, kind, params[i]), kind, params, i + 1)

AdjustStock(t, params) == StockBatch(t, "AdjustStock", params, 1)
ReleaseStock(t, params) == StockBatch(t, "ReleaseStock", params, 1)
ReduceStock(t, params) == StockBatch(t, "ReduceStock", params, 1)

\* CreateStockMovements: one INSERT per parameter.  The column "type" is
\* filled from the parameter's reference type.
InsertStockMovement(t, param) ==
  IF t.aborted \/ Faulty(t, "CreateStockMovements")
    THEN Abort(t, "create stock movements failed")
    ELSE updateStockCache(
           [t EXCEPT !.w.movements = @ \cup
              {[ id |-> NextId(t, "movements"),
                 stockId |-> param.stockId,
                 quantity |-> param.quantity,
                 type |-> param.referenceType,
                 referenceId |-> param.referenceId,
                 referenceType |-> param.referenceType ]}],
           param.stockId)

RECURSIVE CreateStockMovements(_, _, _)
CreateStockMovements(t, params, i) ==
  IF i > Len(params) THEN t
  ELSE CreateStockMovements(InsertStockMovement(t, params[i]), params, i + 1)

\* -------------------------------------------------------------------- carts
ActiveCartsOf(rows, customerID) ==
  {c \in rows.carts : c.customerId = customerID /\ c.status = CartStatusActive}

FirstRow(S) == CHOOSE r \in S : \A q \in S : r.id <= q.id

NewCartRow(t, customerID) ==
  [id |-> NextId(t, "carts"), customerId |-> customerID,
   status |-> CartStatusActive]

\* GetOrCreateActiveCart: the lookup and the creating transaction run outside
\* the caller's transaction; the created cart is committed on its own.  The
\* cart handed back carries the id 0: CreateCart does not read the id back.
GetOrCreateActiveCart(t, customerID) ==
  LET active == ActiveCartsOf(t.g, customerID)
  IN IF active # {}
       THEN [t |-> t, id |-> FirstRow(active).id]
     ELSE IF Faulty(t, "CreateCart")
       THEN [t |-> Fail(t, "failed to create new cart"), id |-> 0]
     ELSE [t |-> [t EXCEPT !.g.carts = @ \cup {NewCartRow(t, customerID)}],
           id |-> 0]

\* AddCartItem: INSERT INTO cart_items; cart_id references carts(id).
AddCartItem(t, cartID, item) ==
  IF t.aborted \/ Faulty(t, "AddCartItem")
       \/ cartID \notin {c.id : c \in t.g.carts \cup t.w.carts}
    THEN Abort(t, "failed to add cart item")
    ELSE [t EXCEPT !.w.cartItems = @ \cup
            {[ id |-> NextId(t, "cartItems"), cartId |-> cartID,
               productId |-> item.productId, priceId |-> item.priceId,
               stockId |-> item.stockId, quantity |-> item.quantity,
               unitPrice |-> item.unitPrice, subtotal |-> item.subtotal ]}]

\* UpdateCartItem: UPDATE ... WHERE id = $1 AND updated_at = $4, called with no
\* updated_at: the statement matches no row.
UpdateCartItem(t, item) ==
  IF t.aborted \/ Faulty(t, "UpdateCartItem")
    THEN Abort(t, "failed to update cart item")
    ELSE t

\* (C26, altered) The statement matches the cart's row and sets its status.
UpdateCartStatusWrites(t, cartID, status) ==
  IF t.aborted \/ Faulty(t, "UpdateCartStatus")
    THEN Abort(t, "failed to update cart status")
    ELSE [t EXCEPT !.w.carts =
            {IF c.id = cartID THEN [c EXCEPT !.status = status] ELSE c :
               c \in @}]

\* UpdateCartStatus: UPDATE ... WHERE id = $1 AND updated_at = $3, called with
\* no updated_at: the statement matches no row.
UpdateCartStatus(t, cartID, status) ==
  IF t.aborted \/ Faulty(t, "UpdateCartStatus")
    THEN Abort(t, "failed to update cart status")
    ELSE t

\* The loop of AddItemsToCart over the items of the call.
RECURSIVE AddItemsLoop(_, _, _, _, _, _)
AddItemsLoop(t, cartID, items, i, adjustParams, moveParams) ==
  IF i > Len(items)
    THEN [t |-> t, adjustParams |-> adjustParams, moveParams |-> moveParams]
  ELSE
    LET item == items[i]
        gs == GetStock(t, item.stockId)
        stockModel == gs.stock
        existing == {ci \in gs.t.w.cartItems :
                       ci.cartId = cartID /\ ci.productId = item.productId}
        stop(tt) == [t |-> tt, adjustParams |-> adjustParams,
                     moveParams |-> moveParams]
    IN IF gs.t.err # "" THEN stop(gs.t)
       ELSE IF Uint64Sub(stockModel.quantity, stockModel.reservedQuantity)
                 < item.quantity
         THEN stop(Fail(gs.t, "insufficient stock"))
       ELSE
         LET t2 == IF existing # {}
                     THEN UpdateCartItem(gs.t, FirstRow(existing))
                     ELSE AddCartItem(gs.t, cartID, item)
         IN IF t2.err # "" THEN stop(t2)
            ELSE AddItemsLoop(t2, cartID, items, i + 1,
                   Append(adjustParams,
                          [stockId |-> item.stockId,
                           quantity |-> item.quantity,
                           lastUpdated |-> stockModel.updatedAt]),
                   Append(moveParams,
                          [stockId |-> item.stockId,
                           quantity |-> item.quantity,
                           type |-> StockMovementTypeReserve,
                           referenceId |-> cartID,
                           referenceType |-> StockMovementReferenceTypeCart]))

\* The body of AddItemsToCart, run inside the transaction t.
AddItemsToCartBody(t, customerID, cartID, items) ==
  LET found == {c \in t.w.carts : c.id = cartID}
  IN IF Faulty(t, "GetCart") THEN Abort(t, "failed to get cart")
     ELSE IF found = {} THEN Fail(t, "failed to get cart")
     ELSE
       LET cartModel == FirstRow(found)
           goc == IF cartModel.status # CartStatusActive
                    THEN GetOrCreateActiveCart(t, customerID)
                    ELSE [t |-> t, id |-> cartID]
       IN IF goc.t.err # "" THEN goc.t
          ELSE
            LET loop == AddItemsLoop(goc.t, goc.id, items, 1, <<>>, <<>>)
            IN IF loop.t.err # "" THEN loop.t
               ELSE
                 LET t3 == AdjustStock(loop.t, loop.adjustParams)
                 IN IF t3.err # "" THEN t3
                    ELSE CreateStockMovements(t3, loop.moveParams, 1)

\* The body of CreateCart: the customer's active cart when there is one, else
\* a new active cart.
CreateCartBody(t, customerID) ==
  IF Faulty(t, "GetCart") THEN Abort(t, "failed to get active cart")
  ELSE IF ActiveCartsOf(t.w, customerID) # {} THEN t
  ELSE IF Faulty(t, "CreateCart") THEN Abort(t, "failed to create cart")
  ELSE [t EXCEPT !.w.carts = @ \cup {NewCartRow(t, customerID)}]

\* ------------------------------------------------------------------- orders
\* (C2, altered) The order row is inserted and an error is reported without a
\* failed statement.
CreateOrderReportsLate(t, customerID, cartID) ==
  LET newId == NextId(t, "orders")
      t1 == [t EXCEPT !.w.orders = @ \cup
                        {[ id |-> newId, customerId |-> customerID,
                           cartId |-> cartID, status |-> OrderStatusPending,
                           paymentIntent |-> newId ]},
                      !.id = newId]
  IN IF Faulty(t, "CreateOrder")
       THEN Fail(t1, "failed to create order") ELSE t1

\* CreateOrder: INSERT INTO orders ... RETURNING id.  The payment intent of an
\* order is attached by the payment layer; the model names it by the order.
CreateOrder(t, customerID, cartID) ==
  IF t.aborted \/ Faulty(t, "CreateOrder")
    THEN Abort(t, "failed to create order")
    ELSE LET newId == NextId(t, "orders")
         IN [t EXCEPT !.w.orders = @ \cup
                        {[ id |-> newId, customerId |-> customerID,
                           cartId |-> cartID, status |-> OrderStatusPending,
                           paymentIntent |-> newId ]},
                      !.id = newId]

\* AddOrderItems: one INSERT per item, in the order of the list.
RECURSIVE AddOrderItems(_, _, _)
AddOrderItems(t, items, i) ==
  IF t.aborted \/ Faulty(t, "AddOrderItems")
    THEN Abort(t, "failed to add order items")
  ELSE IF i > Len(items) THEN t
  ELSE AddOrderItems(
         [t EXCEPT !.w.orderItems = @ \cup
            {[id |-> NextId(t, "orderItems")] @@ items[i]}],
         items, i + 1)

\* UpdateOrderStatus of the order repository: UPDATE orders SET status.
RepoUpdateOrderStatus(t, orderID, status) ==
  LET old == {o \in t.w.orders : o.id = orderID}
  IN IF t.aborted \/ Faulty(t, "UpdateOrderStatus")
       THEN Abort(t, "failed to update order status")
     ELSE IF old = {} THEN t
     ELSE IF {o \in t.g.orders : o.id = orderID}
               # {o \in t.s.orders : o.id = orderID}
       THEN Abort(t, "could not serialize access")
     ELSE [t EXCEPT !.w.orders =
             (@ \ old) \cup {[o EXCEPT !.status = status] : o \in old}]

\* A set of rows as a list, by ascending id.
RECURSIVE RowList(_)
RowList(S) ==
  IF S = {} THEN <<>>
  ELSE LET r == FirstRow(S) IN <<r>> \o RowList(S \ {r})

\* The order item ConvertCartToOrder makes of a cart item.
OrderItemOf(orderID, item) ==
  [orderId |-> orderID, productId |-> item.productId,
   priceId |-> item.priceId, stockId |-> item.stockId,
   quantity |-> item.quantity, unitPrice |-> item.unitPrice,
   subtotal |-> item.subtotal]

\* The loop of ConvertCartToOrder over the cart's items.
RECURSIVE ConvertLoop(_, _, _, _, _, _, _)
ConvertLoop(t, orderID, cartItems, i, orderItems, reduceParams, moveParams) ==
  IF i > Len(cartItems)
    THEN [t |-> t, orderItems |-> orderItems, reduceParams |-> reduceParams,
          moveParams |-> moveParams]
  ELSE
    LET item == cartItems[i]
        gs == GetStock(t, item.stockId)
    IN IF gs.t.err # ""
         THEN [t |-> gs.t, orderItems |-> orderItems,
               reduceParams |-> reduceParams, moveParams |-> moveParams]
       ELSE ConvertLoop(gs.t, orderID, cartItems, i + 1,
              Append(orderItems, OrderItemOf(orderID, item)),
              Append(reduceParams,
                     [stockId |-> item.stockId, quantity |-> item.quantity,
                      lastUpdated |-> gs.stock.updatedAt]),
              Append(moveParams,
                     [stockId |-> item.stockId, quantity |-> item.quantity,
                      type |-> StockMovementTypeOut,
                      referenceId |-> orderID,
                      referenceType |-> StockMovementReferenceTypeOrder]))

\* The body of ConvertCartToOrder, run inside the transaction t.
ConvertCartToOrderBody(t, cartID) ==
  LET found == {c \in t.w.carts : c.id = cartID}
      cartItems == RowList({ci \in t.w.cartItems : ci.cartId = cartID})
  IN IF Faulty(t, "GetCart") THEN Abort(t, "failed to get cart")
     ELSE IF found = {} THEN Fail(t, "failed to get cart")
     ELSE IF FirstRow(found).status # CartStatusActive
       THEN Fail(t, "cart is not active")
     ELSE IF Faulty(t, "ListCartItems")
       THEN Abort(t, "failed to list cart items")
     ELSE IF Len(cartItems) = 0 THEN Fail(t, "cart is empty")
     ELSE
       LET t1 == CreateOrder(t, FirstRow(found).customerId, cartID)
       IN IF t1.err # "" THEN t1
          ELSE
            LET loop == ConvertLoop(t1, t1.id, cartItems, 1,
                                    <<>>, <<>>, <<>>)
            IN IF loop.t.err # "" THEN loop.t
               ELSE
                 LET t2 == AddOrderItems(loop.t, loop.orderItems, 1)
                 IN IF t2.err # "" THEN t2
                    ELSE
                      LET t3 == ReduceStock(t2, loop.reduceParams)
                      IN IF t3.err # "" THEN t3
                         ELSE
                           LET t4 == CreateStockMovements(
                                       t3, loop.moveParams, 1)
                           IN IF t4.err # "" THEN t4
                              ELSE UpdateCartStatus(
                                     t4, cartID, CartStatusConverted)

\* ------------------------------------------------- cart item workflows
\* GetCartItem: the row of cart_items with this id, or none.
GetCartItem(t, itemID) == {ci \in t.w.cartItems : ci.id = itemID}

\* release_stock, the function of the migration's trigger AFTER DELETE ON
\* cart_items, for the deleted rows: UPDATE stocks SET reserved_quantity =
\* reserved_quantity - OLD.quantity WHERE id = OLD.stock_id.  updated_at is
\* left as it is.  The store has the trigger or not (the migration is not
\* the schema the queries are written for); a transaction whose fault field
\* names release_stock runs on a store that has it.
RECURSIVE release_stock(_, _)
release_stock(t, deleted) ==
  IF deleted = {} \/ t.aborted \/ t.fault # "release_stock" THEN t
  ELSE
    LET OLD == FirstRow(deleted)
        id == OLD.stockId
    IN IF t.g.stocks[id] # t.s.stocks[id]
         THEN Abort(t, "could not serialize access")
         ELSE release_stock(
                [t EXCEPT !.w.stocks[id].reservedQuantity = @ - OLD.quantity],
                deleted \ {OLD})

\* RemoveCartItem: DELETE FROM cart_items WHERE id = $1.
RemoveCartItem(t, itemID) ==
  IF t.aborted \/ Faulty(t, "RemoveCartItem")
    THEN Abort(t, "failed to remove cart item")
    ELSE release_stock(
           [t EXCEPT !.w.cartItems = {ci \in @ : ci.id # itemID}],
           {ci \in t.w.cartItems : ci.id = itemID})

\* ClearCartItems: DELETE FROM cart_items WHERE cart_id = $1.
ClearCartItems(t, cartID) ==
  IF t.aborted \/ Faulty(t, "ClearCartItems")
    THEN Abort(t, "failed to clear cart items")
    ELSE release_stock(
           [t EXCEPT !.w.cartItems = {ci \in @ : ci.cartId # cartID}],
           {ci \in t.w.cartItems : ci.cartId = cartID})

\* The body of RemoveItemFromCart.  The item's quantity is checked against
\* the available stock and passed to AdjustStock, which adds it to the
\* reservation; the movement is of type reserve.
RemoveItemFromCartBody(t, cartID, itemID) ==
  LET found == GetCartItem(t, itemID)
  IN IF found = {} THEN Fail(t, "failed to get cart item")
     ELSE
       LET item == FirstRow(found)
           gs == GetStock(t, item.stockId)
           stockModel == gs.stock
       IN IF gs.t.err # "" THEN gs.t
          ELSE IF Uint64Sub(stockModel.quantity, stockModel.reservedQuantity)
                    < item.quantity
            THEN Fail(gs.t, "insufficient stock")
          ELSE
            LET t1 == RemoveCartItem(gs.t, itemID)
            IN IF t1.err # "" THEN t1
               ELSE
                 LET t2 == AdjustStock(t1,
                             <<[stockId |-> item.stockId,
                                quantity |-> item.quantity,
                                lastUpdated |-> stockModel.updatedAt]>>)
                 IN IF t2.err # "" THEN t2
                    ELSE CreateStockMovements(t2,
                           <<[stockId |-> item.stockId,
                              quantity |-> item.quantity,
                              type |-> StockMovementTypeReserve,
                              referenceId |-> cartID,
                              referenceType |->
                                StockMovementReferenceTypeCart]>>, 1)

\* The loop of ClearCart over the cart's items.
RECURSIVE ClearLoop(_, _, _, _, _, _)
ClearLoop(t, cartID, items, i, releaseParams, moveParams) ==
  IF i > Len(items)
    THEN [t |-> t, releaseParams |-> releaseParams,
          moveParams |-> moveParams]
  ELSE
    LET item == items[i]
        gs == GetStock(t, item.stockId)
    IN IF gs.t.err # ""
         THEN [t |-> gs.t, releaseParams |-> releaseParams,
               moveParams |-> moveParams]
       ELSE ClearLoop(gs.t, cartID, items, i + 1,
              Append(releaseParams,
                     [stockId |-> item.stockId, quantity |-> item.quantity,
                      lastUpdated |-> gs.stock.updatedAt]),
              Append(moveParams,
                     [stockId |-> item.stockId, quantity |-> item.quantity,
                      type |-> StockMovementTypeRelease,
                      referenceId |-> cartID,
                      referenceType |-> StockMovementReferenceTypeCart]))

\* The body of ClearCart.
ClearCartBody(t, cartID, status) ==
  LET found == {c \in t.w.carts : c.id = cartID}
      items == RowList({ci \in t.w.cartItems : ci.cartId = cartID})
  IN IF found = {} THEN Fail(t, "failed to get cart")
     ELSE
       LET loop == ClearLoop(t, cartID, items, 1, <<>>, <<>>)
           t2 == IF Len(items) = 0 \/ loop.t.err # "" THEN loop.t
                 ELSE LET t1 == ReleaseStock(loop.t, loop.releaseParams)
                      IN IF t1.err # "" THEN t1
                         ELSE CreateStockMovements(t1, loop.moveParams, 1)
       IN IF t2.err # "" THEN t2
          ELSE
            LET t3 == ClearCartItems(t2, cartID)
            IN IF t3.err # "" THEN t3
               ELSE UpdateCartStatus(t3, cartID, status)

\* The body of UpdateCartItemQuantity.  quantityDiff is a signed difference.
UpdateCartItemQuantityBody(t, cartID, itemID, newQuantity) ==
  LET found == GetCartItem(t, itemID)
  IN IF found = {} THEN Fail(t, "failed to get cart item")
     ELSE
       LET item == FirstRow(found)
           quantityDiff == newQuantity - item.quantity
           gs == GetStock(t, item.stockId)
           stockModel == gs.stock
           absDiff == IF quantityDiff > 0 THEN quantityDiff
                      ELSE 0 - quantityDiff
           params == <<[stockId |-> item.stockId, quantity |-> absDiff,
                        lastUpdated |-> stockModel.updatedAt]>>
           moveParams ==
             <<[stockId |-> item.stockId, quantity |-> absDiff,
                type |-> IF quantityDiff > 0 THEN StockMovementTypeReserve
                         ELSE StockMovementTypeRelease,
                referenceId |-> cartID,
                referenceType |-> StockMovementReferenceTypeCart]>>
       IN IF item.cartId # cartID
            THEN Fail(t, "cart item does not belong to the specified cart")
          ELSE IF gs.t.err # "" THEN gs.t
          ELSE IF quantityDiff > 0
                  /\ Uint64Sub(stockModel.quantity,
                               stockModel.reservedQuantity) < quantityDiff
            THEN Fail(gs.t, "insufficient stock")
          ELSE
            LET t1 == UpdateCartItem(gs.t, item)
            IN IF t1.err # "" THEN t1
               ELSE IF quantityDiff = 0 THEN t1
               ELSE
                 LET t2 == IF quantityDiff > 0
                             THEN AdjustStock(t1, params)
                             ELSE ReleaseStock(t1, params)
                 IN IF t2.err # "" THEN t2
                    ELSE CreateStockMovements(t2, moveParams, 1)

\* The order state machine.
AllowedTransitions ==
  [s \in OrderStatuses |->
    CASE s = OrderStatusPending ->
           {OrderStatusPaid, OrderStatusCancelled, OrderStatusFailed}
      [] s = OrderStatusPaid ->
           {OrderStatusCompleted, OrderStatusRefunded,
            OrderStatusPartiallyRefunded, OrderStatusDispute}
      [] s = OrderStatusFailed -> {OrderStatusPending}
      [] s = OrderStatusPartiallyRefunded -> {OrderStatusRefunded}
      [] s = OrderStatusDispute -> {OrderStatusPaid, OrderStatusRefunded}
      [] OTHER -> {}]

\* (C4, altered) Every status change is allowed.
AllowChangeStatusAlways(order, newStatus) == TRUE

AllowChangeStatus(order, newStatus) ==
  newStatus \in AllowedTransitions[order.status]

\* The stock restoration of UpdateOrderStatus: parameters per order item.
RECURSIVE RestoreLoop(_, _, _, _, _, _)
RestoreLoop(t, orderID, items, i, adjustParams, moveParams) ==
  IF i > Len(items)
    THEN [t |-> t, adjustParams |-> adjustParams, moveParams |-> moveParams]
  ELSE
    LET item == items[i]
        gs == GetStock(t, item.stockId)
    IN IF gs.t.err # ""
         THEN [t |-> gs.t, adjustParams |-> adjustParams,
               moveParams |-> moveParams]
       ELSE RestoreLoop(gs.t, orderID, items, i + 1,
              Append(adjustParams,
                     [stockId |-> item.stockId, quantity |-> item.quantity,
                      lastUpdated |-> gs.stock.updatedAt]),
              Append(moveParams,
                     [stockId |-> item.stockId, quantity |-> item.quantity,
                      type |-> StockMovementTypeIn,
                      referenceId |-> orderID,
                      referenceType |-> StockMovementReferenceTypeOrder]))

\* The body of the service's UpdateOrderStatus.
UpdateOrderStatusBody(t, orderID, newStatus) ==
  LET found == {o \in t.w.orders : o.id = orderID}
      items == RowList({oi \in t.w.orderItems : oi.orderId = orderID})
  IN IF Faulty(t, "GetOrder") THEN Abort(t, "failed to get order")
     ELSE IF found = {} THEN Fail(t, "failed to get order")
     ELSE IF ~AllowChangeStatus(FirstRow(found), newStatus)
       THEN Fail(t, "invalid status transition")
     ELSE
       LET t1 == RepoUpdateOrderStatus(t, orderID, newStatus)
       IN IF t1.err # "" THEN t1
          ELSE IF newStatus \notin {OrderStatusCancelled, OrderStatusRefunded}
            THEN t1
          ELSE IF Faulty(t1, "ListOrderItems")
            THEN Abort(t1, "failed to list order items")
          ELSE
            LET loop == RestoreLoop(t1, orderID, items, 1, <<>>, <<>>)
            IN IF loop.t.err # "" THEN loop.t
               ELSE
                 LET t2 == AdjustStock(loop.t, loop.adjustParams)
                 IN IF t2.err # "" THEN t2
                    ELSE CreateStockMovements(t2, loop.moveParams, 1)

\* ------------------------------------------- order creation and cancelling
\* OrderItem.Validate and Order.Validate.
ValidateItem(oi) ==
  /\ oi.productId # ""
  /\ oi.quantity > 0
  /\ oi.unitPrice > 0
  /\ oi.subtotal = oi.quantity * oi.unitPrice

Validate(o) ==
  /\ o.customerID # ""
  /\ o.currency # ""
  /\ Len(o.items) # 0
  /\ o.total > 0
  /\ o.subtotal > 0
  /\ o.tax >= 0
  /\ o.discount >= 0
  /\ o.total = o.subtotal + o.tax - o.discount
  /\ \A i \in 1..Len(o.items) : ValidateItem(o.items[i])

\* Order.CanCancel; recent: a processing order was created within 24 hours.
Day == 24   \* 24*time.Hour, in hours

\* (C24, altered) A processing order can be cancelled at any age.
CanCancelWhileProcessing(order, sinceCreated) ==
  order.status \in {OrderStatusPending, OrderStatusProcessing}

\* Order.CanCancel; sinceCreated is time.Since(o.CreatedAt), in hours.
CanCancel(order, sinceCreated) ==
  CASE order.status = OrderStatusPending -> TRUE
    [] order.status = OrderStatusProcessing -> sinceCreated <= Day
    [] OTHER -> FALSE

\* UpdateOrderTotals of the order repository; the totals are not part of the
\* modelled rows.
UpdateOrderTotals(t, orderID) ==
  IF t.aborted \/ Faulty(t, "UpdateOrderTotals")
    THEN Abort(t, "failed to update order totals")
    ELSE t

\* The loop of the service's CreateOrder over the order's items: the item's
\* quantity is checked against the stock row's quantity.
RECURSIVE CreateOrderLoop(_, _, _, _, _, _, _)
CreateOrderLoop(t, orderID, items, i, orderItems, reduceParams, moveParams) ==
  IF i > Len(items)
    THEN [t |-> t, orderItems |-> orderItems, reduceParams |-> reduceParams,
          moveParams |-> moveParams]
  ELSE
    LET item == items[i]
        gs == GetStock(t, item.stockId)
        stop(tt) == [t |-> tt, orderItems |-> orderItems,
                     reduceParams |-> reduceParams,
                     moveParams |-> moveParams]
    IN IF gs.t.err # "" THEN stop(gs.t)
       ELSE IF gs.stock.quantity < item.quantity
         THEN stop(Fail(gs.t, "insufficient stock"))
       ELSE CreateOrderLoop(gs.t, orderID, items, i + 1,
              Append(orderItems, OrderItemOf(orderID, item)),
              Append(reduceParams,
                     [stockId |-> item.stockId, quantity |-> item.quantity,
                      lastUpdated |-> gs.stock.updatedAt]),
              Append(moveParams,
                     [stockId |-> item.stockId, quantity |-> item.quantity,
                      type |-> StockMovementTypeOut,
                      referenceId |-> orderID,
                      referenceType |-> StockMovementReferenceTypeOrder]))

\* The body of the service's CreateOrder.
CreateOrderBody(t, order) ==
  IF ~Validate(order) THEN Fail(t, "invalid order data")
  ELSE
    LET t1 == CreateOrder(t, order.customerID, 0)
    IN IF t1.err # "" THEN t1
       ELSE
         LET loop == CreateOrderLoop(t1, t1.id, order.items, 1,
                                     <<>>, <<>>, <<>>)
         IN IF loop.t.err # "" THEN loop.t
            ELSE
              LET t2 == AddOrderItems(loop.t, loop.orderItems, 1)
              IN IF t2.err # "" THEN t2
                 ELSE
                   LET t3 == ReduceStock(t2, loop.reduceParams)
                   IN IF t3.err # "" THEN t3
                      ELSE
                        LET t4 == CreateStockMovements(
                                    t3, loop.moveParams, 1)
                        IN IF t4.err # "" THEN t4
                           ELSE UpdateOrderTotals(t4, t1.id)

\* The body of CancelOrder.
CancelOrderBody(t, orderID, sinceCreated) ==
  LET found == {o \in t.w.orders : o.id = orderID}
      items == RowList({oi \in t.w.orderItems : oi.orderId = orderID})
  IN IF Faulty(t, "GetOrder") THEN Abort(t, "failed to get order")
     ELSE IF found = {} THEN Fail(t, "failed to get order")
     ELSE IF ~CanCancel(FirstRow(found), sinceCreated)
       THEN Fail(t, "order cannot be cancelled")
     ELSE
       LET t1 == RepoUpdateOrderStatus(t, orderID, OrderStatusCancelled)
       IN IF t1.err # "" THEN t1
          ELSE IF Faulty(t1, "ListOrderItems")
            THEN Abort(t1, "failed to list order items")
          ELSE
            LET loop == RestoreLoop(t1, orderID, items, 1, <<>>, <<>>)
            IN IF loop.t.err # "" THEN loop.t
               ELSE
                 LET t2 == AdjustStock(loop.t, loop.adjustParams)
                 IN IF t2.err # "" THEN t2
                    ELSE CreateStockMovements(t2, loop.moveParams, 1)

\* ------------------------------------------------------------------- events
ZeroTime == 0   \* the LastUpdated of a parameter built without one

EventInputs ==
  { [id |-> "evt_1", type |-> "charge.refunded", paymentIntent |-> 1,
     amount |-> 6, amountRefunded |-> 6],
    [id |-> "evt_2", type |-> "charge.refunded", paymentIntent |-> 1,
     amount |-> 6, amountRefunded |-> 2],
    [id |-> "evt_3", type |-> "customer.created", paymentIntent |-> 0,
     amount |-> 0, amountRefunded |-> 0] }

\* The payment intent events.
PaymentEventInputs ==
  { [id |-> "evt_4", type |-> "payment_intent.succeeded",
     paymentIntent |-> 1, amount |-> 6, amountRefunded |-> 0],
    [id |-> "evt_5", type |-> "payment_intent.payment_failed",
     paymentIntent |-> 1, amount |-> 6, amountRefunded |-> 0],
    [id |-> "evt_6", type |-> "payment_intent.canceled",
     paymentIntent |-> 1, amount |-> 6, amountRefunded |-> 0] }

EventIds == {e.id : e \in EventInputs \cup PaymentEventInputs}

\* The types registerEventHandlers registers a handler for, as far as the
\* model runs their handlers.
registerEventHandlers ==
  {"payment_intent.succeeded", "payment_intent.payment_failed",
   "payment_intent.canceled", "charge.refunded"}

\* handleChargeRefunded: one AdjustStock call per order item.
RECURSIVE RefundLoop(_, _, _)
RefundLoop(t, items, i) ==
  IF i > Len(items) THEN t
  ELSE
    LET t1 == AdjustStock(t, <<[stockId |-> items[i].stockId,
                                quantity |-> items[i].quantity,
                                lastUpdated |-> ZeroTime]>>)
    IN IF t1.err # "" THEN t1 ELSE RefundLoop(t1, items, i + 1)

handleChargeRefundedBody(t, charge) ==
  LET found == {o \in t.w.orders : o.paymentIntent = charge.paymentIntent}
      newStatus == IF charge.amountRefunded = charge.amount
                     THEN OrderStatusRefunded
                     ELSE OrderStatusPartiallyRefunded
  IN IF Faulty(t, "GetOrder") THEN Abort(t, "failed to get order")
     ELSE IF found = {}
       THEN Fail(t, "failed to get order by payment intent ID")
     ELSE
       LET orderID == FirstRow(found).id
           items == RowList({oi \in t.w.orderItems : oi.orderId = orderID})
           t1 == RepoUpdateOrderStatus(t, orderID, newStatus)
       IN IF t1.err # "" THEN t1
          ELSE IF Faulty(t1, "ListOrderItems")
            THEN Abort(t1, "failed to list order items")
          ELSE RefundLoop(t1, items, 1)

\* The Items of an order read by GetOrderByPaymentIntentID: the row of the
\* orders table carries no items.
ConvertSqlcOrderItems(order) == <<>>

\* The loop of the payment-failed and canceled handlers over order.Items.
RECURSIVE PaymentRestoreLoop(_, _, _, _)
PaymentRestoreLoop(t, items, i, adjustParams) ==
  IF i > Len(items) THEN [t |-> t, adjustParams |-> adjustParams]
  ELSE
    LET gs == GetStock(t, items[i].stockId)
    IN IF gs.t.err # "" THEN [t |-> gs.t, adjustParams |-> adjustParams]
       ELSE PaymentRestoreLoop(gs.t, items, i + 1,
              Append(adjustParams,
                     [stockId |-> items[i].stockId,
                      quantity |-> items[i].quantity,
                      lastUpdated |-> gs.stock.updatedAt]))

\* GetOrderByPaymentIntentID inside a handler's transaction.
GetOrderByPaymentIntentID(t, paymentIntent) ==
  {o \in t.w.orders : o.paymentIntent = paymentIntent}

handlePaymentIntentSucceededBody(t, event) ==
  LET found == GetOrderByPaymentIntentID(t, event.paymentIntent)
  IN IF Faulty(t, "GetOrder") THEN Abort(t, "failed to get order")
     ELSE IF found = {} THEN Fail(t, "no rows in result set")
     ELSE RepoUpdateOrderStatus(t, FirstRow(found).id, OrderStatusPaid)

\* The bodies of handlePaymentIntentPaymentFailed and
\* handlePaymentIntentCanceled differ in the status they set.
PaymentIntentEndedBody(t, event, status) ==
  LET found == GetOrderByPaymentIntentID(t, event.paymentIntent)
  IN IF Faulty(t, "GetOrder") THEN Abort(t, "failed to get order")
     ELSE IF found = {} THEN Fail(t, "no rows in result set")
     ELSE
       LET order == FirstRow(found)
           t1 == RepoUpdateOrderStatus(t, order.id, status)
       IN IF t1.err # "" THEN t1
          ELSE
            LET loop == PaymentRestoreLoop(t1, ConvertSqlcOrderItems(order),
                                           1, <<>>)
            IN IF loop.t.err # "" THEN loop.t
               ELSE AdjustStock(loop.t, loop.adjustParams)

handlePaymentIntentPaymentFailedBody(t, event) ==
  PaymentIntentEndedBody(t, event, OrderStatusFailed)

handlePaymentIntentCanceledBody(t, event) ==
  PaymentIntentEndedBody(t, event, OrderStatusCancelled)

\* ------------------------------------------------------ transaction manager
\* The rows after COMMIT: the transaction's own writes over the rows
\* committed meanwhile.
MergeRows(t, table) ==
  (t.g[table] \ (t.s[table] \ t.w[table])) \cup (t.w[table] \ t.s[table])

CommitTx(t) ==
  [ stocks |-> [id \in StockIds |->
                  IF t.w.stocks[id] # t.s.stocks[id]
                    THEN t.w.stocks[id] ELSE t.g.stocks[id]],
    movements |-> MergeRows(t, "movements"),
    carts |-> MergeRows(t, "carts"),
    cartItems |-> MergeRows(t, "cartItems"),
    orders |-> MergeRows(t, "orders"),
    orderItems |-> MergeRows(t, "orderItems"),
    events |-> t.g.events ]

\* ExecuteTransactionWithOptions after fn has returned t.err without a panic.
\* The deferred function tests the err of BeginTx, which is nil here, never
\* the error fn returned: it calls Commit.  COMMIT of a transaction with a
\* failed statement rolls back.  The caller gets fn's error: the error of a
\* Commit that fails is assigned to err when the value to return has been
\* fixed already, and is logged.
ExecuteTransactionWithOptions(t) ==
  LET err == ""
  IN IF err # ""
       THEN [db |-> t.g, committed |-> FALSE, err |-> t.err]
     ELSE IF Faulty(t, "Commit")
       THEN [db |-> t.g, committed |-> FALSE, err |-> t.err]
     ELSE [db |-> IF t.aborted THEN t.g ELSE CommitTx(t),
           committed |-> ~t.aborted, err |-> t.err]

\* ----------------------------------------------------- transactions, retried
\* What one run of ExecuteTransactionWithOptions meets: BeginTx fails
\* ("begin"), or fn returns nil ("nil"), returns an error ("err") or panics
\* ("panic").
AttemptOutcomes ==
  { [kind |-> "nil", err |-> "", panic |-> ""],
    [kind |-> "begin", err |-> "connection refused", panic |-> ""],
    [kind |-> "err", err |-> "could not serialize access", panic |-> ""],
    [kind |-> "err", err |-> "deadlock detected", panic |-> ""],
    [kind |-> "err", err |-> "insufficient stock", panic |-> ""],
    [kind |-> "panic", err |-> "", panic |-> "nil map"],
    [kind |-> "panic", err |-> "", panic |-> "index out of range"] }

\* The outcomes of the successive runs of one call, and its maxRetries.
OutcomeLists == [1..(MaxRetries + 1) -> AttemptOutcomes]
MaxRetriesInputs == 0..MaxRetries

\* (C23, altered) The deferred function commits when fn has panicked.
DeferredCommitsOnPanic(outcome, err) == "commit"

\* The deferred function of ExecuteTransactionWithOptions: what it does with
\* the transaction.  err is the variable assigned by BeginTx, the one the
\* deferred function tests.
Deferred(outcome, err) ==
  IF outcome.kind = "panic" THEN "rollback"
  ELSE IF err # "" THEN "rollback"
  ELSE "commit"

\* One run of ExecuteTransactionWithOptions: whether fn was invoked, how the
\* transaction ended, the error returned and the panic that leaves the
\* function.
AttemptOf(outcome) ==
  IF outcome.kind = "begin"
    THEN [invoked |-> FALSE, end |-> "none",
          err |-> "begin transaction failed: " \o outcome.err, panic |-> ""]
    ELSE LET err == ""
         IN [invoked |-> TRUE, end |-> Deferred(outcome, err),
             err |-> outcome.err, panic |-> outcome.panic]

isRetryableError(err) == TRUE

\* (C21, altered) The loop runs once more.
RetryLoopOnceMore(i, maxRetries) == i <= maxRetries

\* The loop condition of ExecuteTransactionWithRetry.
RetryLoop(i, maxRetries) == i < maxRetries

\* fmt.Errorf("transaction failed after %d attempts: %w", maxRetries, err)
RetryError(maxRetries, err) ==
  [ text |-> "transaction failed after attempts",
    attempts |-> maxRetries, wraps |-> err ]

\* An error returned as it is (nil is the empty text).
Returned(err) == [text |-> err, attempts |-> 0, wraps |-> ""]

\* No call of ExecuteTransactionWithRetry is in progress.
NoRetry ==
  [ at |-> "none", outcomes |-> <<>>, maxRetries |-> 0, i |-> 0,
    calls |-> 0, ends |-> <<>>, err |-> "", result |-> Returned(""),
    panic |-> "" ]

others ==
  <<db, cache, clock, pc, call, txNow, snap, ret, handlerRuns, wp, handlers>>

\* One round of the loop of ExecuteTransactionWithRetry: a run of
\* ExecuteTransactionWithOptions, then the tests of its error.
RetryAttempt ==
  /\ tm.at = "loop"
  /\ RetryLoop(tm.i, tm.maxRetries)
  /\ LET a == AttemptOf(tm.outcomes[tm.i + 1])
         ran == [tm EXCEPT !.calls = IF a.invoked THEN @ + 1 ELSE @,
                           !.ends = Append(@, a.end),
                           !.err = a.err]
     IN tm' = IF a.panic # ""
                THEN [ran EXCEPT !.at = "panicked", !.panic = a.panic]
              ELSE IF a.err = ""
                THEN [ran EXCEPT !.at = "returned", !.result = Returned("")]
              ELSE IF ~isRetryableError(a.err)
                THEN [ran EXCEPT !.at = "returned", !.result = Returned(a.err)]
              ELSE [ran EXCEPT !.i = @ + 1]
  /\ UNCHANGED others

\* The loop is over: the call returns the wrapped error.
RetryExhausted ==
  /\ tm.at = "loop"
  /\ ~RetryLoop(tm.i, tm.maxRetries)
  /\ tm' = [tm EXCEPT !.at = "returned",
                      !.result = RetryError(tm.maxRetries, tm.err)]
  /\ UNCHANGED others

\* -------------------------------------------------------------- worker pool
\* The events handed to Submit; an event stands for the task made from it.
Tasks == 1..MaxTasks

\* (C14, altered) One worker goroutine more than size is started.
NewWorkerPoolOneMore(size) ==
  [ size |-> size, workers |-> 0, tasks |-> <<>>, closed |-> FALSE,
    at |-> [w \in 1..(size + 1) |-> "range"],
    task |-> [w \in 1..(size + 1) |-> 0],
    state |-> [t \in Tasks |-> "new"],
    runs |-> [t \in Tasks |-> 0],
    by |-> [t \in Tasks |-> 0],
    failed |-> [t \in Tasks |-> FALSE],
    shutdown |-> "idle", i |-> 0, before |-> {} ]

\* NewWorkerPool: the workers channel of capacity size and no token, the open
\* and empty tasks channel, and size worker goroutines at the head of their
\* loop.  Per task: where it is ("new", "submitting", "queued", "taken",
\* "running", "done"), how often it has been executed, by which worker it
\* was received (0: by none) and whether its last
\* ProcessEvent returned an error.  Shutdown: "idle", "draining" (tasks
\* closed, i tokens received so far) or "returned"; before: the tasks
\* submitted when Shutdown was called.
NewWorkerPool(size) ==
  [ size |-> size, workers |-> 0, tasks |-> <<>>, closed |-> FALSE,
    at |-> [w \in 1..size |-> "range"],
    task |-> [w \in 1..size |-> 0],
    state |-> [t \in Tasks |-> "new"],
    runs |-> [t \in Tasks |-> 0],
    by |-> [t \in Tasks |-> 0],
    failed |-> [t \in Tasks |-> FALSE],
    shutdown |-> "idle", i |-> 0, before |-> {} ]

\* The goroutine ids a pool's workers are taken from.
Workers == 1..(PoolSize + 1)

shop ==
  <<db, cache, clock, pc, call, txNow, snap, ret, handlerRuns, handlers, tm>>

\* (C17, altered) The send drops the task.
SendDrops(queue, t) == queue

\* wp.tasks <- task
Send(queue, t) == Append(queue, t)

\* (C18, altered) A worker leaves its loop when the task's ProcessEvent
\* returned an error.
AfterTaskStopsOnError(err) == IF err THEN "exited" ELSE "release"

\* Where a worker goes on when the task has returned: the task logs an error
\* of ProcessEvent and returns.
AfterTask(err) == "release"

\* Submit is called with an event: the caller arrives at the send.  Callers
\* do not call Submit once Shutdown has been called.
Submit(t) ==
  /\ wp.state[t] = "new"
  /\ wp.shutdown = "idle"
  /\ wp' = [wp EXCEPT !.state[t] = "submitting"]
  /\ UNCHANGED shop

\* The send of Submit: it waits while the tasks channel is full.
SubmitSend(t) ==
  /\ wp.state[t] = "submitting"
  /\ Len(wp.tasks) < TasksCap
  /\ wp' = [wp EXCEPT !.tasks = Send(@, t), !.state[t] = "queued"]
  /\ UNCHANGED shop

\* for task := range wp.tasks: a worker receives the next task.
WorkerReceive(w) ==
  /\ w \in DOMAIN wp.at
  /\ wp.at[w] = "range"
  /\ wp.tasks # <<>>
  /\ wp' = [wp EXCEPT !.tasks = Tail(@), !.at[w] = "acquire",
                      !.task[w] = Head(wp.tasks),
                      !.state[Head(wp.tasks)] = "taken",
                      !.by[Head(wp.tasks)] = w]
  /\ UNCHANGED shop

\* The range loop ends: the tasks channel is closed and empty.
WorkerExit(w) ==
  /\ w \in DOMAIN wp.at
  /\ wp.at[w] = "range"
  /\ wp.tasks = <<>> /\ wp.closed
  /\ wp' = [wp EXCEPT !.at[w] = "exited"]
  /\ UNCHANGED shop

\* wp.workers <- struct{}{}: it waits while the workers channel is full; then
\* the task starts.
WorkerAcquire(w) ==
  /\ w \in DOMAIN wp.at
  /\ wp.at[w] = "acquire"
  /\ wp.workers < wp.size
  /\ wp' = [wp EXCEPT !.workers = @ + 1, !.at[w] = "task",
                      !.state[wp.task[w]] = "running",
                      !.runs[wp.task[w]] = @ + 1]
  /\ UNCHANGED shop

\* task() returns: ProcessEvent has returned nil or an error.
WorkerTask(w) ==
  /\ w \in DOMAIN wp.at
  /\ wp.at[w] = "task"
  /\ \E err \in BOOLEAN :
       wp' = [wp EXCEPT !.at[w] = AfterTask(err),
                        !.state[wp.task[w]] = "done",
                        !.failed[wp.task[w]] = err]
  /\ UNCHANGED shop

\* <-wp.workers: it waits while the workers channel is empty.
WorkerRelease(w) ==
  /\ w \in DOMAIN wp.at
  /\ wp.at[w] = "release"
  /\ wp.workers > 0
  /\ wp' = [wp EXCEPT !.workers = @ - 1, !.at[w] = "range",
                      !.task[w] = 0]
  /\ UNCHANGED shop

\* Shutdown is called: close(wp.tasks).  No caller is inside Submit.
ShutdownClose ==
  /\ wp.shutdown = "idle"
  /\ \A t \in Tasks : wp.state[t] # "submitting"
  /\ wp' = [wp EXCEPT !.closed = TRUE, !.shutdown = "draining", !.i = 0,
                      !.before = {t \in Tasks : wp.state[t] # "new"}]
  /\ UNCHANGED shop

\* One round of Shutdown's loop: <-wp.workers.
ShutdownReceive ==
  /\ wp.shutdown = "draining"
  /\ wp.i < wp.size
  /\ wp.workers > 0
  /\ wp' = [wp EXCEPT !.workers = @ - 1, !.i = @ + 1]
  /\ UNCHANGED shop

\* Shutdown's loop is over; Shutdown returns.
ShutdownReturn ==
  /\ wp.shutdown = "draining"
  /\ wp.i >= wp.size
  /\ wp' = [wp EXCEPT !.shutdown = "returned"]
  /\ UNCHANGED shop

\* ------------------------------------------------------------------ actions
Init ==
  /\ db = InitDb
  /\ cache = [id \in StockIds |-> NoEntry]
  /\ clock = 1
  /\ pc = [p \in Procs |-> "idle"]
  /\ call = [p \in Procs |-> NoCall]
  /\ txNow = [p \in Procs |-> 0]
  /\ snap = [p \in Procs |-> InitDb]
  /\ ret = [p \in Procs |-> NoRet]
  /\ handlerRuns = [e \in EventIds |-> 0]
  /\ wp = NewWorkerPool(PoolSize)
  /\ handlers = registerEventHandlers
  /\ tm = NoRetry

\* BeginTx: a caller enters a service call and BEGIN fixes NOW().
BeginTx(p) ==
  /\ pc[p] = "idle"
  /\ clock < MaxClock
  /\ clock' = clock + 1
  /\ txNow' = [txNow EXCEPT ![p] = clock + 1]
  /\ call' = [call EXCEPT ![p] = NoCall]
  /\ pc' = [pc EXCEPT ![p] = "begun"]
  /\ ret' = [ret EXCEPT ![p] = NoRet]
  /\ UNCHANGED <<db, cache, snap, handlerRuns, wp, handlers, tm>>

\* The first statement of the transaction takes its snapshot.
Snapshot(p) ==
  /\ pc[p] = "begun"
  /\ snap' = [snap EXCEPT ![p] = db]
  /\ pc' = [pc EXCEPT ![p] = "running"]
  /\ UNCHANGED <<db, cache, clock, call, txNow, ret, handlerRuns, wp, handlers,
            tm>>

Tx(p, fault) == NewTx(snap[p], db, cache, txNow[p], fault)

\* The end of the call c: the transaction manager ends the transaction and
\* the call returns.
Return(p, c, t) ==
  LET r == ExecuteTransactionWithOptions(t)
  IN /\ db' = r.db
     /\ cache' = t.cache
     /\ call' = [call EXCEPT ![p] = c]
     /\ ret' = [ret EXCEPT ![p] =
                  [op |-> c.op, err |-> r.err,
                   committed |-> r.committed, skipped |-> t.skipped,
                   id |-> IF r.err = "" THEN t.id ELSE 0, end |-> clock,
                   profile |-> ProfileOf(c.op)]]
     /\ pc' = [pc EXCEPT ![p] = "idle"]
     /\ snap' = [snap EXCEPT ![p] = InitDb]
     /\ UNCHANGED <<clock, txNow, handlerRuns, wp, handlers, tm>>

CreateCart(p) ==
  /\ pc[p] = "running" /\ call[p] = NoCall
  /\ \E customerID \in Customers :
     \E fault \in {"none"} :
       Return(p, [op |-> "CreateCart", customerID |-> customerID],
              CreateCartBody(Tx(p, fault), customerID))

AddItemsToCart(p) ==
  /\ pc[p] = "running" /\ call[p] = NoCall
  /\ \E target \in CartTargets : \E items \in ItemLists :
     \E fault \in {"none", "AdjustStock", "CreateStockMovements"} :
       Return(p, [op |-> "AddItemsToCart", customerID |-> target.customerID,
                  cartID |-> target.cartID, items |-> items],
              AddItemsToCartBody(Tx(p, fault), target.customerID,
                                 target.cartID, items))

ConvertCartToOrder(p) ==
  /\ pc[p] = "running" /\ call[p] = NoCall
  /\ \E cartID \in CartIdInputs :
     \E fault \in {"none", "GetCart", "ListCartItems", "CreateOrder",
                   "GetStock", "AddOrderItems", "ReduceStock",
                   "CreateStockMovements", "UpdateCartStatus"} :
       Return(p, [op |-> "ConvertCartToOrder", cartID |-> cartID],
              ConvertCartToOrderBody(Tx(p, fault), cartID))

UpdateOrderStatus(p) ==
  /\ pc[p] = "running" /\ call[p] = NoCall
  /\ \E orderID \in OrderIdInputs : \E newStatus \in OrderStatuses :
     \E fault \in {"none", "UpdateOrderStatus"} :
       Return(p, [op |-> "UpdateOrderStatus", orderID |-> orderID,
                  newStatus |-> newStatus],
              UpdateOrderStatusBody(Tx(p, fault), orderID, newStatus))

\* The time-to-live of a cached stock row runs out.
CacheExpire(id) ==
  /\ cache[id] # NoEntry
  /\ cache' = [cache EXCEPT ![id] = NoEntry]
  /\ UNCHANGED <<db, clock, pc, call, txNow, snap, ret, handlerRuns, wp,
                 handlers, tm>>

\* (C5, altered) The lookup never finds the event.
GetByIDNeverFinds(rows, id) == FALSE

\* GetByID of the event repository: is there a row with this id.
GetByID(rows, id) == id \in {e.id : e \in rows.events}

\* (C31, altered) The events table has no key: no INSERT meets a present id.
EventIdNeverTaken(rows, id) == FALSE

\* The key of the events table: an INSERT of a present id fails.
EventIdTaken(rows, id) == id \in {e.id : e \in rows.events}

\* (C19, altered) A handler is found for every event type.
GetHandlerFindsAny(registered, eventType) == TRUE

\* GetHandler of the event manager.
GetHandler(registered, eventType) == eventType \in registered

\* ProcessEvent up to the handler lookup: an event already recorded is
\* acknowledged; an event type without a handler is an error; else the call
\* goes on to record the event.
ProcessEventLookupOf(p, events) ==
  /\ pc[p] = "idle"
  /\ \E event \in events :
       LET c == [op |-> "ProcessEvent", event |-> event]
           recorded == GetByID(db, event.id)
           done(e) == [NoRet EXCEPT !.op = "ProcessEvent", !.err = e,
                                    !.end = clock]
       IN /\ call' = [call EXCEPT ![p] = c]
          /\ IF recorded
               THEN /\ ret' = [ret EXCEPT ![p] = done("")]
                    /\ pc' = pc
             ELSE IF ~GetHandler(handlers, event.type)
               THEN /\ ret' = [ret EXCEPT ![p] =
                                 done("no handler registered for event type")]
                    /\ pc' = pc
             ELSE /\ ret' = [ret EXCEPT ![p] = NoRet]
                  /\ pc' = [pc EXCEPT ![p] = "lookup"]
          /\ UNCHANGED <<db, cache, clock, txNow, snap, handlerRuns, wp,
                         handlers, tm>>

ProcessEventLookup(p) ==
  /\ pc[p] = "idle"
  /\ ProcessEventLookupOf(p, EventInputs)

\* ProcessEvent, called with a payment intent event, up to the handler lookup.
ProcessPaymentEvent(p) ==
  /\ pc[p] = "idle"
  /\ ProcessEventLookupOf(p, PaymentEventInputs)

\* (C30, altered) Create reports success and persists nothing.
CreateLosesRow(rows, event, fault) == [err |-> "", events |-> rows.events]

\* Create of the event repository: the row is inserted with processed =
\* false, or the INSERT fails.  The event id is the key of the events table.
Create(rows, event, fault) ==
  IF fault = "Create" \/ EventIdTaken(rows, event.id)
    THEN [err |-> "failed to create event", events |-> rows.events]
    ELSE [err |-> "",
          events |-> rows.events \cup
                       {[id |-> event.id, type |-> event.type,
                         processed |-> FALSE]}]

\* ProcessEvent records the event and invokes the handler, which begins its
\* transaction.
ProcessEventCreate(p) ==
  /\ pc[p] = "lookup"
  /\ clock < MaxClock
  /\ \E fault \in {"none", "Create"} :
       LET event == call[p].event
           created == Create(db, event, fault)
       IN IF created.err # ""
            THEN /\ ret' = [ret EXCEPT ![p] =
                              [NoRet EXCEPT !.op = "ProcessEvent",
                                            !.err = created.err,
                                            !.end = clock]]
                 /\ pc' = [pc EXCEPT ![p] = "idle"]
                 /\ UNCHANGED <<db, cache, clock, call, txNow, snap,
                                handlerRuns, wp, handlers, tm>>
            ELSE /\ db' = [db EXCEPT !.events = created.events]
                 /\ handlerRuns' = [handlerRuns EXCEPT ![event.id] = @ + 1]
                 /\ clock' = clock + 1
                 /\ txNow' = [txNow EXCEPT ![p] = clock + 1]
                 /\ pc' = [pc EXCEPT ![p] = "begun"]
                 /\ UNCHANGED <<cache, call, snap, ret, wp, handlers, tm>>

\* The handler of charge.refunded ends; ProcessEvent returns its error.
handleChargeRefunded(p) ==
  /\ pc[p] = "running" /\ call[p] # NoCall
  /\ call[p].event.type = "charge.refunded"
  /\ \E fault \in {"none", "UpdateOrderStatus", "AdjustStock"} :
       Return(p, call[p],
              handleChargeRefundedBody(Tx(p, fault), call[p].event))

Next ==
  \/ \E p \in Procs : BeginTx(p)
  \/ \E p \in Procs : Snapshot(p)
  \/ \E p \in Procs : CreateCart(p)
  \/ \E p \in Procs : AddItemsToCart(p)
  \/ \E p \in Procs : ConvertCartToOrder(p)
  \/ \E id \in StockIds : CacheExpire(id)

\* The cart workflows.
Spec == Init /\ [][Next]_vars

\* The handlers of the payment intent events end; ProcessEvent returns
\* their error.
handlePaymentIntentSucceeded(p) ==
  /\ pc[p] = "running" /\ call[p] # NoCall
  /\ call[p].event.type = "payment_intent.succeeded"
  /\ \E fault \in {"none", "UpdateOrderStatus"} :
       Return(p, call[p],
              handlePaymentIntentSucceededBody(Tx(p, fault), call[p].event))

handlePaymentIntentPaymentFailed(p) ==
  /\ pc[p] = "running" /\ call[p] # NoCall
  /\ call[p].event.type = "payment_intent.payment_failed"
  /\ \E fault \in {"none", "UpdateOrderStatus"} :
       Return(p, call[p],
              handlePaymentIntentPaymentFailedBody(Tx(p, fault),
                                                   call[p].event))

handlePaymentIntentCanceled(p) ==
  /\ pc[p] = "running" /\ call[p] # NoCall
  /\ call[p].event.type = "payment_intent.canceled"
  /\ \E fault \in {"none", "UpdateOrderStatus"} :
       Return(p, call[p],
              handlePaymentIntentCanceledBody(Tx(p, fault), call[p].event))

\* The event types a handler is registered for after construction.
HandlerTypeInputs == {"customer.created"}

\* RegisterHandler of the event manager.
RegisterHandler(eventType) ==
  /\ handlers' = handlers \cup {eventType}
  /\ UNCHANGED <<db, cache, clock, pc, call, txNow, snap, ret, handlerRuns,
                 wp, tm>>

\* A handler registered after construction ends: it has written nothing and
\* returns nil or an error; ProcessEvent returns its error.
handleRegistered(p) ==
  /\ pc[p] = "running" /\ call[p] # NoCall
  /\ call[p].event.type \in HandlerTypeInputs
  /\ \E err \in {"", "handler failed"} :
       Return(p, call[p], Fail(Tx(p, "none"), err))

NextOrder ==
  \/ \E p \in Procs : BeginTx(p)
  \/ \E p \in Procs : Snapshot(p)
  \/ \E p \in Procs : UpdateOrderStatus(p)
  \/ \E p \in Procs : ProcessEventLookup(p)
  \/ \E p \in Procs : ProcessEventCreate(p)
  \/ \E p \in Procs : handleChargeRefunded(p)
  \/ \E id \in StockIds : CacheExpire(id)

\* The order status workflow and the event pipeline.
SpecOrder == Init /\ [][NextOrder]_vars

\* The orders a caller may hand to the service's CreateOrder: one that passes
\* Validate and one whose total is not subtotal + tax - discount.
OrderInputs ==
  { [customerID |-> "c2", currency |-> "usd", subtotal |-> 6, tax |-> 0,
     discount |-> 0, total |-> 6,
     items |-> << [productId |-> "prodA", priceId |-> "priceA", stockId |-> 1,
                   quantity |-> 3, unitPrice |-> 2, subtotal |-> 6] >>],
    [customerID |-> "c2", currency |-> "usd", subtotal |-> 6, tax |-> 0,
     discount |-> 0, total |-> 5,
     items |-> << [productId |-> "prodA", priceId |-> "priceA", stockId |-> 1,
                   quantity |-> 3, unitPrice |-> 2, subtotal |-> 6] >>] }

\* The cart item ids and the quantities UpdateCartItemQuantity is called with,
\* and the status ClearCart is called with.
CartItemIdInputs == {1}
QuantityInputs == {1, 5}
ClearStatusInputs == {"abandoned"}

RemoveItemFromCart(p) ==
  /\ pc[p] = "running" /\ call[p] = NoCall
  /\ \E cartID \in {2} : \E itemID \in CartItemIdInputs :
     \E fault \in {"none", "CreateStockMovements"} :
       Return(p, [op |-> "RemoveItemFromCart", cartID |-> cartID,
                  itemID |-> itemID],
              RemoveItemFromCartBody(Tx(p, fault), cartID, itemID))

UpdateCartItemQuantity(p) ==
  /\ pc[p] = "running" /\ call[p] = NoCall
  /\ \E cartID \in {2} : \E itemID \in CartItemIdInputs :
     \E newQuantity \in QuantityInputs :
     \E fault \in {"none"} :
       Return(p, [op |-> "UpdateCartItemQuantity", cartID |-> cartID,
                  itemID |-> itemID, newQuantity |-> newQuantity],
              UpdateCartItemQuantityBody(Tx(p, fault), cartID, itemID,
                                         newQuantity))

ClearCartOf(p, cartIDs, statuses) ==
  /\ pc[p] = "running" /\ call[p] = NoCall
  /\ \E cartID \in cartIDs : \E status \in statuses :
     \E fault \in {"none"} :
       Return(p, [op |-> "ClearCart", cartID |-> cartID, status |-> status],
              ClearCartBody(Tx(p, fault), cartID, status))

\* ClearCart, called for the active cart.
ClearCart(p) ==
  /\ pc[p] = "running"
  /\ ClearCartOf(p, {2}, ClearStatusInputs)

\* ClearCart, called for any cart with any status of the enumeration.
ClearAnyCart(p) ==
  /\ pc[p] = "running"
  /\ ClearCartOf(p, CartIdInputs, CartStatuses)

\* The service's CreateOrder.
ServiceCreateOrder(p) ==
  /\ pc[p] = "running" /\ call[p] = NoCall
  /\ \E order \in OrderInputs :
     \E fault \in {"none", "CreateStockMovements"} :
       Return(p, [op |-> "CreateOrder", order |-> order],
              CreateOrderBody(Tx(p, fault), order))

\* The ages, in hours, of the order CancelOrder is called for: below, at and
\* beyond a day.
SinceCreatedInputs == {Day - 1, Day, Day + 1}

CancelOrderOf(p, ages) ==
  /\ pc[p] = "running" /\ call[p] = NoCall
  /\ \E orderID \in OrderIdInputs : \E sinceCreated \in ages :
     \E fault \in {"none"} :
       Return(p, [op |-> "CancelOrder", orderID |-> orderID,
                  sinceCreated |-> sinceCreated],
              CancelOrderBody(Tx(p, fault), orderID, sinceCreated))

\* CancelOrder, called for an order created within the day.
CancelOrder(p) ==
  /\ pc[p] = "running"
  /\ CancelOrderOf(p, {Day - 1})

\* CancelOrder, called for an order of any age.
CancelOrderAged(p) ==
  /\ pc[p] = "running"
  /\ CancelOrderOf(p, SinceCreatedInputs)

\* AddItemsToCart as the ledger workflows meet it: one item for the active
\* cart of customer c1.
AddItemToCart(p) ==
  /\ pc[p] = "running" /\ call[p] = NoCall
  /\ \E items \in [1..1 -> ItemInputs] :
       Return(p, [op |-> "AddItemsToCart", customerID |-> "c1",
                  cartID |-> 2, items |-> items],
              AddItemsToCartBody(Tx(p, "none"), "c1", 2, items))

NextLedger ==
  \/ \E p \in Procs : BeginTx(p)
  \/ \E p \in Procs : Snapshot(p)
  \/ \E p \in Procs : AddItemToCart(p)
  \/ \E p \in Procs : RemoveItemFromCart(p)
  \/ \E p \in Procs : UpdateCartItemQuantity(p)
  \/ \E p \in Procs : ClearCart(p)
  \/ \E p \in Procs : ServiceCreateOrder(p)
  \/ \E p \in Procs : CancelOrder(p)
  \/ \E p \in Procs : ConvertCartToOrder(p)
  \/ \E p \in Procs : UpdateOrderStatus(p)
  \/ \E id \in StockIds : CacheExpire(id)

\* The workflows that move the stock ledger.
SpecLedger == Init /\ [][NextLedger]_vars

NextEvents ==
  \/ \E p \in Procs : Snapshot(p)
  \/ \E p \in Procs : ProcessEventLookup(p)
  \/ \E p \in Procs : ProcessEventCreate(p)
  \/ \E p \in Procs : handleChargeRefunded(p)
  \/ \E p \in Procs : handleRegistered(p)
  \/ \E eventType \in HandlerTypeInputs : RegisterHandler(eventType)
  \/ \E id \in StockIds : CacheExpire(id)

\* The event pipeline with handlers registered after construction.
SpecEvents == Init /\ [][NextEvents]_vars

NextPayments ==
  \/ \E p \in Procs : BeginTx(p)
  \/ \E p \in Procs : Snapshot(p)
  \/ \E p \in Procs : UpdateOrderStatus(p)
  \/ \E p \in Procs : CancelOrder(p)
  \/ \E p \in Procs : ProcessPaymentEvent(p)
  \/ \E p \in Procs : ProcessEventCreate(p)
  \/ \E p \in Procs : handlePaymentIntentSucceeded(p)
  \/ \E p \in Procs : handlePaymentIntentPaymentFailed(p)
  \/ \E p \in Procs : handlePaymentIntentCanceled(p)
  \/ \E id \in StockIds : CacheExpire(id)

\* Order status changes by the service and by the payment intent handlers.
SpecPayments == Init /\ [][NextPayments]_vars

NextPool ==
  \/ \E t \in Tasks : Submit(t)
  \/ \E t \in Tasks : SubmitSend(t)
  \/ \E w \in Workers : WorkerReceive(w)
  \/ \E w \in Workers : WorkerExit(w)
  \/ \E w \in Workers : WorkerAcquire(w)
  \/ \E w \in Workers : WorkerTask(w)
  \/ \E w \in Workers : WorkerRelease(w)
  \/ ShutdownClose
  \/ ShutdownReceive
  \/ ShutdownReturn

\* Every goroutine that can take a step does so in the end, and a task that
\* has started returns.
FairPool ==
  /\ \A t \in Tasks : WF_vars(SubmitSend(t))
  /\ \A w \in Workers :
       /\ WF_vars(WorkerReceive(w))
       /\ WF_vars(WorkerExit(w))
       /\ WF_vars(WorkerAcquire(w))
       /\ WF_vars(WorkerTask(w))
       /\ WF_vars(WorkerRelease(w))
  /\ WF_vars(ShutdownReceive)
  /\ WF_vars(ShutdownReturn)

\* The worker pool with Shutdown.
SpecPool == Init /\ [][NextPool]_vars /\ FairPool

NextPoolRun ==
  \/ \E t \in Tasks : Submit(t)
  \/ \E t \in Tasks : SubmitSend(t)
  \/ \E w \in Workers : WorkerReceive(w)
  \/ \E w \in Workers : WorkerAcquire(w)
  \/ \E w \in Workers : WorkerTask(w)
  \/ \E w \in Workers : WorkerRelease(w)

\* The worker pool while Shutdown is not called.
SpecPoolRun == Init /\ [][NextPoolRun]_vars /\ FairPool

\* ExecuteTransactionWithRetry is called: fn's successive outcomes and
\* maxRetries are the inputs.
InitRetry ==
  /\ db = InitDb
  /\ cache = [id \in StockIds |-> NoEntry]
  /\ clock = 1
  /\ pc = [p \in Procs |-> "idle"]
  /\ call = [p \in Procs |-> NoCall]
  /\ txNow = [p \in Procs |-> 0]
  /\ snap = [p \in Procs |-> InitDb]
  /\ ret = [p \in Procs |-> NoRet]
  /\ handlerRuns = [e \in EventIds |-> 0]
  /\ wp = NewWorkerPool(PoolSize)
  /\ handlers = registerEventHandlers
  /\ \E outcomes \in OutcomeLists : \E maxRetries \in MaxRetriesInputs :
       tm = [NoRetry EXCEPT !.at = "loop", !.outcomes = outcomes,
                            !.maxRetries = maxRetries]

\* The store holds one order, in any status: the repository's CreateOrder
\* stores the status its caller hands it.
InitCancel ==
  /\ \E status \in OrderStatuses :
       db = [InitDb EXCEPT !.orders =
               { [id |-> 1, customerId |-> "c1", cartId |-> 1,
                  status |-> status, paymentIntent |-> 1] }]
  /\ cache = [id \in StockIds |-> NoEntry]
  /\ clock = 1
  /\ pc = [p \in Procs |-> "idle"]
  /\ call = [p \in Procs |-> NoCall]
  /\ txNow = [p \in Procs |-> 0]
  /\ snap = [p \in Procs |-> InitDb]
  /\ ret = [p \in Procs |-> NoRet]
  /\ handlerRuns = [e \in EventIds |-> 0]
  /\ wp = NewWorkerPool(PoolSize)
  /\ handlers = registerEventHandlers
  /\ tm = NoRetry

NextCancel ==
  \/ \E p \in Procs : BeginTx(p)
  \/ \E p \in Procs : Snapshot(p)
  \/ \E p \in Procs : CancelOrderAged(p)

\* CancelOrder for orders of every status and age.
SpecCancel == InitCancel /\ [][NextCancel]_vars

\* AddItemsToCart with one item, for the active cart and for the converted
\* one.
AddItemToAnyCart(p) ==
  /\ pc[p] = "running" /\ call[p] = NoCall
  /\ \E target \in CartTargets : \E items \in [1..1 -> ItemInputs] :
       Return(p, [op |-> "AddItemsToCart", customerID |-> target.customerID,
                  cartID |-> target.cartID, items |-> items],
              AddItemsToCartBody(Tx(p, "none"), target.customerID,
                                 target.cartID, items))

NextCarts ==
  \/ \E p \in Procs : BeginTx(p)
  \/ \E p \in Procs : Snapshot(p)
  \/ \E p \in Procs : CreateCart(p)
  \/ \E p \in Procs : AddItemToAnyCart(p)
  \/ \E p \in Procs : RemoveItemFromCart(p)
  \/ \E p \in Procs : UpdateCartItemQuantity(p)
  \/ \E p \in Procs : ClearAnyCart(p)
  \/ \E p \in Procs : ConvertCartToOrder(p)

\* The cart workflows, the clearing of any cart included.
SpecCarts == Init /\ [][NextCarts]_vars

\* The store of InitDb with the item of the converted cart still in it:
\* ConvertCartToOrder copies the cart's items into the order and deletes
\* none of them.
InitItems ==
  /\ db = [InitDb EXCEPT !.cartItems =
             { [id |-> 1, cartId |-> 1, productId |-> "prodA",
                priceId |-> "priceA", stockId |-> 1, quantity |-> 3,
                unitPrice |-> 2, subtotal |-> 6] }]
  /\ cache = [id \in StockIds |-> NoEntry]
  /\ clock = 1
  /\ pc = [p \in Procs |-> "idle"]
  /\ call = [p \in Procs |-> NoCall]
  /\ txNow = [p \in Procs |-> 0]
  /\ snap = [p \in Procs |-> InitDb]
  /\ ret = [p \in Procs |-> NoRet]
  /\ handlerRuns = [e \in EventIds |-> 0]
  /\ wp = NewWorkerPool(PoolSize)
  /\ handlers = registerEventHandlers
  /\ tm = NoRetry

\* RemoveItemFromCart for every cart and item, on a store without and with
\* the release_stock trigger.
RemoveItemFromAnyCart(p) ==
  /\ pc[p] = "running" /\ call[p] = NoCall
  /\ \E cartID \in CartIdInputs : \E itemID \in {1, 2} :
     \E fault \in {"none", "release_stock"} :
       Return(p, [op |-> "RemoveItemFromCart", cartID |-> cartID,
                  itemID |-> itemID],
              RemoveItemFromCartBody(Tx(p, fault), cartID, itemID))

\* UpdateCartItemQuantity for every cart and item: to a smaller quantity,
\* to the quantity of the items of ItemInputs, and to larger ones.
UpdateAnyCartItemQuantity(p) ==
  /\ pc[p] = "running" /\ call[p] = NoCall
  /\ \E cartID \in CartIdInputs : \E itemID \in {1, 2} :
     \E newQuantity \in {1, 3, 5, 12} :
       Return(p, [op |-> "UpdateCartItemQuantity", cartID |-> cartID,
                  itemID |-> itemID, newQuantity |-> newQuantity],
              UpdateCartItemQuantityBody(Tx(p, "none"), cartID, itemID,
                                         newQuantity))

NextItems ==
  \/ \E p \in Procs : BeginTx(p)
  \/ \E p \in Procs : Snapshot(p)
  \/ \E p \in Procs : AddItemToCart(p)
  \/ \E p \in Procs : RemoveItemFromAnyCart(p)
  \/ \E p \in Procs : UpdateAnyCartItemQuantity(p)

\* The workflows on single cart items, for the items of every cart.
SpecItems == InitItems /\ [][NextItems]_vars

\* An order that passes Validate and asks for more of stock 2 than the row
\* holds.
OversizedOrders ==
  { [customerID |-> "c2", currency |-> "usd", subtotal |-> 10, tax |-> 0,
     discount |-> 0, total |-> 10,
     items |-> << [productId |-> "prodB", priceId |-> "priceB", stockId |-> 2,
                   quantity |-> 2, unitPrice |-> 5, subtotal |-> 10] >>] }

\* The service's CreateOrder for the orders of OrderInputs and for the
\* oversized one.
CreateAnyOrder(p) ==
  /\ pc[p] = "running" /\ call[p] = NoCall
  /\ \E order \in OrderInputs \cup OversizedOrders :
       Return(p, [op |-> "CreateOrder", order |-> order],
              CreateOrderBody(Tx(p, "none"), order))

NextValidation ==
  \/ \E p \in Procs : BeginTx(p)
  \/ \E p \in Procs : Snapshot(p)
  \/ \E p \in Procs : AddItemsToCart(p)
  \/ \E p \in Procs : CreateAnyOrder(p)
  \/ \E id \in StockIds : CacheExpire(id)

\* The two workflows that check the stock of each item they are handed.
SpecValidation == Init /\ [][NextValidation]_vars

\* AddItemsToCart with one item for the active cart of customer c1, in a
\* transaction whose Commit is carried out or fails.
AddItemToCartCommit(p) ==
  /\ pc[p] = "running" /\ call[p] = NoCall
  /\ \E items \in [1..1 -> ItemInputs] : \E fault \in {"none", "Commit"} :
       Return(p, [op |-> "AddItemsToCart", customerID |-> "c1",
                  cartID |-> 2, items |-> items],
              AddItemsToCartBody(Tx(p, fault), "c1", 2, items))

NextCommit ==
  \/ \E p \in Procs : BeginTx(p)
  \/ \E p \in Procs : Snapshot(p)
  \/ \E p \in Procs : AddItemToCartCommit(p)
  \/ \E id \in StockIds : CacheExpire(id)

\* A workflow whose transactions may fail to commit.
SpecCommit == Init /\ [][NextCommit]_vars

NextStatus ==
  \/ \E p \in Procs : BeginTx(p)
  \/ \E p \in Procs : Snapshot(p)
  \/ \E p \in Procs : UpdateOrderStatus(p)
  \/ \E id \in StockIds : CacheExpire(id)

\* UpdateOrderStatus for an order of every status.
SpecStatus == InitCancel /\ [][NextStatus]_vars

NextRetry ==
  \/ RetryAttempt
  \/ RetryExhausted

\* One call of ExecuteTransactionWithRetry.
SpecRetry == InitRetry /\ [][NextRetry]_vars

\* ------------------------------------------------------------------- claims
\* A step in which caller p's call returns.
Returns(p) == pc[p] = "running" /\ pc'[p] = "idle"

\* The rows a transaction's body writes; the carts table apart, which a nested
\* GetOrCreateActiveCart writes in a transaction of its own.
BodyTables == {"stocks", "movements", "cartItems", "orders", "orderItems"}

\* C1: ExecuteTransactionWithOptions commits exactly when fn returned no
\* error: a call whose fn returned an error is never committed and none of
\* its writes becomes visible.
C1_CommitIffNoError ==
  [][\A p \in Procs :
       Returns(p) =>
         /\ ret'[p].committed <=> ret'[p].err = ""
         /\ ret'[p].err # "" => \A tb \in BodyTables : db'[tb] = db[tb]]_vars

\* C3: a stock UPDATE whose token is stale (it matched no row) is reported
\* as an error of the stock call, which the workflow returns; the workflow
\* neither succeeds nor goes on to a later step.
C3_StaleTokenIsConflict ==
  \A p \in Procs :
    ret[p].skipped # {} =>
      ret[p].err \in {"stock batch failed", "could not serialize access"}

\* C7: an AddItemsToCart that fails for insufficient stock leaves every
\* table as it was: stock rows, carts, cart items and movements.
C7_InsufficientStockLeavesNoTrace ==
  [][\A p \in Procs :
       (Returns(p) /\ ret'[p].op = "AddItemsToCart"
          /\ ret'[p].err = "insufficient stock") => db' = db]_vars

C4_Allowed(s) ==
  CASE s = "pending" -> {"paid", "cancelled", "failed"}
    [] s = "paid" -> {"completed", "refunded", "partially_refunded", "dispute"}
    [] s = "failed" -> {"pending"}
    [] s = "partially_refunded" -> {"refunded"}
    [] s = "dispute" -> {"paid", "refunded"}
    [] OTHER -> {}

RowById(rows, id) == CHOOSE r \in rows : r.id = id

Starts(p) ==
  /\ pc[p] = "idle" /\ call'[p].op = "ProcessEvent"
  /\ <<pc'[p], call'[p], ret'[p]>> # <<pc[p], call[p], ret[p]>>

\* C5, as stated: once a ProcessEvent call for an event id has returned,
\* every later call with that id returns success and invokes no handler.
C5_LaterCallsSucceed ==
  [][\A p \in Procs :
       (Starts(p) /\ \E q \in Procs :
                       /\ pc[q] = "idle" /\ ret[q].op = "ProcessEvent"
                       /\ call[q].event.id = call'[p].event.id)
         => (pc'[p] = "idle" /\ ret'[p].err = ""
             /\ handlerRuns' = handlerRuns)]_vars

\* C5, amended: once a ProcessEvent call has recorded the event, every later
\* call with that id returns success at once and invokes no handler.
C5_RecordedEventIsAcknowledged ==
  [][\A p \in Procs :
       (Starts(p) /\ call'[p].event.id \in {e.id : e \in db.events})
         => (pc'[p] = "idle" /\ ret'[p].err = ""
             /\ handlerRuns' = handlerRuns)]_vars

\* A call for an event whose handler has run was acknowledged.
C5_Witness ==
  \E p \in Procs :
    /\ pc[p] = "idle" /\ ret[p].op = "ProcessEvent" /\ ret[p].err = ""
    /\ ~ret[p].committed
    /\ handlerRuns[call[p].event.id] = 1

RECURSIVE SumQuantity(_)
SumQuantity(S) ==
  IF S = {} THEN 0
  ELSE LET r == CHOOSE x \in S : TRUE
       IN r.quantity + SumQuantity(S \ {r})

C6_Call ==
  [op |-> "AddItemsToCart", customerID |-> "c1", cartID |-> 2,
   items |-> <<[productId |-> "prodB", priceId |-> "priceB", stockId |-> 2,
                quantity |-> 1, unitPrice |-> 5, subtotal |-> 4]>>]

\* C6: two AddItemsToCart calls for one unit each of a stock row with one
\* unit available, both begun before either returned, and no statement of
\* either refused by the store for a reason of its own: exactly one
\* succeeds; afterwards reserved <= quantity and the units in carts <=
\* reserved.
C6_ExactlyOneSucceeds ==
  ( /\ \A p \in Procs : pc[p] = "idle" /\ call[p] = C6_Call
    /\ \A p \in Procs :
         ret[p].err \notin {"stock batch failed",
                            "create stock movements failed"}
    /\ \A p, q \in Procs : txNow[q] <= 3 /\ txNow[q] <= ret[p].end )
  => /\ Cardinality({p \in Procs : ret[p].err = ""}) = 1
     /\ db.stocks[2].reservedQuantity <= db.stocks[2].quantity
     /\ SumQuantity({ci \in db.cartItems : ci.stockId = 2})
          <= db.stocks[2].reservedQuantity

C8_Item ==
  [productId |-> "prodA", priceId |-> "priceA", stockId |-> 1,
   quantity |-> 3, unitPrice |-> 2, subtotal |-> 6]

\* The movements a step adds.
NewMovements == db'.movements \ db.movements

\* C8: adding 3 units from a stock row (10, 0) to a cart leaves the row at
\* (10, 3) and records one movement of type reserve referencing the cart;
\* converting that cart leaves the row at (7, 0), records one movement of
\* type out referencing the order, and marks the cart converted.
C8_ReserveThenConvert ==
  [][\A p \in Procs :
       /\ ( /\ Returns(p) /\ ret'[p].op = "AddItemsToCart"
            /\ ret'[p].err = ""
            /\ call'[p].cartID = 2 /\ call'[p].items = <<C8_Item>>
            /\ db.stocks[1].quantity = 10
            /\ db.stocks[1].reservedQuantity = 0 )
          => /\ db'.stocks[1].quantity = 10
             /\ db'.stocks[1].reservedQuantity = 3
             /\ Cardinality(NewMovements) = 1
             /\ \A m \in NewMovements :
                  /\ m.stockId = 1 /\ m.quantity = 3
                  /\ m.type = "reserve"
                  /\ m.referenceType = "cart" /\ m.referenceId = 2
       /\ ( /\ Returns(p) /\ ret'[p].op = "ConvertCartToOrder"
            /\ ret'[p].err = "" /\ call'[p].cartID = 2
            /\ {[stockId |-> ci.stockId, quantity |-> ci.quantity] :
                   ci \in {x \in db.cartItems : x.cartId = 2}}
                 = {[stockId |-> 1, quantity |-> 3]}
            /\ Cardinality({x \in db.cartItems : x.cartId = 2}) = 1
            /\ db.stocks[1].quantity = 10
            /\ db.stocks[1].reservedQuantity = 3 )
          => /\ db'.stocks[1].quantity = 7
             /\ db'.stocks[1].reservedQuantity = 0
             /\ Cardinality(NewMovements) = 1
             /\ \A m \in NewMovements :
                  /\ m.stockId = 1 /\ m.quantity = 3
                  /\ m.type = "out"
                  /\ m.referenceType = "order"
                  /\ m.referenceId = ret'[p].id
             /\ RowById(db'.carts, 2).status = "converted"]_vars

\* C9: a full-amount charge.refunded event for a paid order, handled with
\* success, sets the order to refunded, gives the quantity of every order
\* item back to its stock row, and records one movement of type in per item.
C9_FullRefundRestoresStock ==
  [][\A p \in Procs :
       ( /\ Returns(p) /\ ret'[p].op = "ProcessEvent" /\ ret'[p].err = ""
         /\ call[p].event.type = "charge.refunded"
         /\ call[p].event.amountRefunded = call[p].event.amount )
       => \A o \in db.orders :
            (o.paymentIntent = call[p].event.paymentIntent
               /\ o.status = "paid") =>
              /\ RowById(db'.orders, o.id).status = "refunded"
              /\ \A oi \in {x \in db.orderItems : x.orderId = o.id} :
                   /\ \/ db'.stocks[oi.stockId].quantity
                           = db.stocks[oi.stockId].quantity + oi.quantity
                      \/ db'.stocks[oi.stockId].reservedQuantity
                           = db.stocks[oi.stockId].reservedQuantity
                               + oi.quantity
                   /\ Cardinality({m \in NewMovements :
                          /\ m.stockId = oi.stockId
                          /\ m.quantity = oi.quantity
                          /\ m.type = "in"
                          /\ m.referenceId = o.id}) = 1]_vars

\* The fields ConvertCartToOrder is to carry from a cart item to an order
\* item.
Carried(r) ==
  [productId |-> r.productId, priceId |-> r.priceId, stockId |-> r.stockId,
   quantity |-> r.quantity, unitPrice |-> r.unitPrice,
   subtotal |-> r.subtotal]

\* The cart items a conversion read, and the order items it created.
CartItemsRead(p) == {ci \in snap[p].cartItems : ci.cartId = call'[p].cartID}
OrderItemsMade(p) == {oi \in db'.orderItems : oi.orderId = ret'[p].id}

Converts(p) ==
  Returns(p) /\ ret'[p].op = "ConvertCartToOrder" /\ ret'[p].err = ""

\* C10: the order items of a created order correspond one to one
\* to the cart's items with the same product, price, stock, quantity and
\* unit price, and each subtotal equals quantity times unit price.
C10_SubtotalIsProduct ==
  [][\A p \in Procs :
       Converts(p) =>
         /\ Cardinality(OrderItemsMade(p)) = Cardinality(CartItemsRead(p))
         /\ \A ci \in CartItemsRead(p) :
              \E oi \in OrderItemsMade(p) : Carried(oi) = Carried(ci)
         /\ \A oi \in OrderItemsMade(p) :
              oi.subtotal = oi.quantity * oi.unitPrice]_vars


\* The stock ledger's invariant on the committed rows.
StockInv(rows) ==
  \A id \in StockIds :
    /\ 0 <= rows.stocks[id].reservedQuantity
    /\ rows.stocks[id].reservedQuantity <= rows.stocks[id].quantity

\* C11: a call of a stock-moving workflow that starts from rows with
\* 0 <= reserved <= quantity and returns without an error leaves rows with
\* 0 <= reserved <= quantity.
C11_LedgerInvariantKept ==
  [][\A p \in Procs :
       (Returns(p) /\ ret'[p].err = "" /\ StockInv(db)) => StockInv(db')]_vars

\* The movements a step adds for one stock row.
NewMovementsOf(id) == {m \in NewMovements : m.stockId = id}

\* C12: a call that commits and changes a stock row adds exactly one
\* movement for that row, and a call in which CreateStockMovements fails
\* changes no stock row.  (No transaction changes one stock row twice: the
\* first UPDATE sets updated_at to NOW(), and the token of a second one is
\* older.)
C12_OneMovementPerMutation ==
  [][\A p \in Procs :
       /\ (Returns(p) /\ ret'[p].committed) =>
            \A id \in StockIds :
              db'.stocks[id] # db.stocks[id] =>
                Cardinality(NewMovementsOf(id)) = 1
       /\ (Returns(p) /\ ret'[p].err = "create stock movements failed") =>
            db'.stocks = db.stocks]_vars

\* C13: every step that changes the status of an order takes it to a status
\* the transition table lists for its old status; an order that is cancelled,
\* refunded or completed keeps its status.
C13_EveryChangeIsListed ==
  [][\A o \in db.orders : \A n \in db'.orders :
       (n.id = o.id /\ n.status # o.status) =>
         n.status \in AllowedTransitions[o.status]]_vars

\* The tasks that are executing, and those a worker has received and not
\* finished.
Executing == {t \in Tasks : wp.state[t] = "running"}
Unfinished(w) ==
  {t \in Tasks : wp.by[t] = w /\ wp.state[t] \in {"taken", "running"}}

\* C14: in a pool of size PoolSize at most PoolSize tasks are executing at
\* once, and a worker has at most one received task that is not finished: it
\* receives the next one only after the one before has returned.
C14_AtMostNExecuting ==
  /\ Cardinality(Executing) <= PoolSize
  /\ \A w \in Workers : Cardinality(Unfinished(w)) <= 1

\* PoolSize tasks are executing while another task waits in the queue.
C14_Witness ==
  /\ Cardinality(Executing) = PoolSize
  /\ wp.tasks # <<>>

\* C15: when Shutdown has returned, every task that was submitted before
\* Shutdown was called has finished executing.
C15_ShutdownIsDrainBarrier ==
  wp.shutdown = "returned" =>
    \A t \in wp.before : wp.state[t] = "done"

\* C16: under fair scheduling, with every started task returning, a call of
\* Shutdown returns in the end and every worker leaves its loop, whatever
\* the number of queued and running tasks, none included.
C16_ShutdownTerminates ==
  (wp.shutdown = "draining") ~>
    (wp.shutdown = "returned" /\ \A w \in DOMAIN wp.at : wp.at[w] = "exited")

\* C17: while Shutdown is not called, a Submit whose queue is full stays at
\* its send; a Submit that leaves its send has put its task into the queue;
\* no task is executed twice; and every task in the queue is executed in the
\* end.
C17_SubmitNeverDrops ==
  /\ [][\A t \in Tasks :
          wp.state[t] = "submitting" =>
            /\ Len(wp.tasks) >= TasksCap => wp'.state[t] = "submitting"
            /\ wp'.state[t] # "submitting" =>
                 /\ wp'.state[t] = "queued"
                 /\ \E k \in 1..Len(wp'.tasks) : wp'.tasks[k] = t]_vars
  /\ [](\A t \in Tasks : wp.runs[t] <= 1)
  /\ \A t \in Tasks :
       (wp.state[t] = "queued") ~> (wp.state[t] = "done" /\ wp.runs[t] = 1)

\* A task has been executed once while a Submit waits at a full queue.
C17_Witness ==
  /\ \E t \in Tasks : wp.state[t] = "done" /\ wp.runs[t] = 1
  /\ \E t \in Tasks : wp.state[t] = "submitting" /\ Len(wp.tasks) = TasksCap

\* C18: a worker whose task's ProcessEvent has returned an error stays in its
\* loop and executes the next task it receives; while Shutdown is not called
\* no worker leaves its loop.
C18_WorkerSurvivesError ==
  /\ [][\A w \in DOMAIN wp.at :
          (wp.at[w] = "task" /\ wp'.at[w] # "task") =>
            wp'.at[w] = "release"]_vars
  /\ [](\A w \in DOMAIN wp.at : wp.at[w] # "exited")
  /\ \A w \in 1..PoolSize :
       (wp.at[w] = "release") ~> (wp.at[w] = "range")

\* A worker is executing a task after a task it executed before has failed.
C18_Witness ==
  \E w \in DOMAIN wp.at : \E t \in Tasks :
    /\ wp.at[w] = "task"
    /\ wp.by[t] = w /\ wp.state[t] = "done" /\ wp.failed[t]

\* The ids of the recorded events.
Recorded(rows) == {e.id : e \in rows.events}

\* C19: a ProcessEvent call for an event that is not recorded and whose type
\* has no handler returns an error, records nothing and invokes no handler;
\* a call for an event that is not recorded and whose type has a handler,
\* whether or not a call for it was refused before, goes on to record the
\* event, and with the event recorded its handler is invoked.
C19_UnhandledTypeLeavesNoRow ==
  [][\A p \in Procs :
       /\ (Starts(p) /\ call'[p].event.id \notin Recorded(db)) =>
            IF call'[p].event.type \in handlers
              THEN pc'[p] = "lookup"
              ELSE /\ pc'[p] = "idle"
                   /\ ret'[p].err = "no handler registered for event type"
                   /\ db' = db /\ handlerRuns' = handlerRuns
       /\ (pc[p] = "lookup" /\ pc'[p] = "begun") =>
            /\ call[p].event.id \in Recorded(db')
            /\ handlerRuns'[call[p].event.id]
                 = handlerRuns[call[p].event.id] + 1]_vars

\* An event was refused for the lack of a handler, and after the handler's
\* registration its handler has been invoked.
C19_Witness ==
  \E p \in Procs :
    /\ pc[p] = "idle" /\ ret[p].op = "ProcessEvent"
    /\ ret[p].err = "no handler registered for event type"
    /\ handlerRuns[call[p].event.id] = 1

\* The handler of event id has run in a call that returned an error.
HandlerFailed(id) ==
  \E q \in Procs :
    /\ pc[q] = "idle" /\ ret[q].op = "ProcessEvent" /\ ret[q].err # ""
    /\ call[q].event.id = id /\ handlerRuns[id] >= 1

\* C20: a recorded event stays recorded; a ProcessEvent call for a recorded
\* event whose handler failed in an earlier call returns success at once
\* and invokes no handler; and a handler is invoked only by a ProcessEvent
\* call that has just recorded the event, never by the pipeline on its own.
C20_FailedEventIsNeverRetried ==
  [][/\ Recorded(db) \subseteq Recorded(db')
     /\ \A p \in Procs :
          (Starts(p) /\ call'[p].event.id \in Recorded(db)
             /\ HandlerFailed(call'[p].event.id))
            => (pc'[p] = "idle" /\ ret'[p].err = ""
                /\ handlerRuns' = handlerRuns /\ db' = db)
     /\ \A id \in EventIds :
          handlerRuns'[id] # handlerRuns[id] =>
            \E p \in Procs :
              /\ pc[p] = "lookup" /\ pc'[p] = "begun"
              /\ call[p].event.id = id /\ id \in Recorded(db')]_vars

\* A delivery whose handler failed, and a redelivery that was acknowledged.
C20_Witness ==
  \E p, q \in Procs :
    /\ pc[q] = "idle" /\ ret[q].op = "ProcessEvent" /\ ret[q].err # ""
    /\ handlerRuns[call[q].event.id] = 1
    /\ pc[p] = "idle" /\ ret[p].op = "ProcessEvent" /\ ret[p].err = ""
    /\ ~ret[p].committed
    /\ call[p].event.id = call[q].event.id

\* The runs of ExecuteTransactionWithOptions the call has made so far.
Runs == 1..Len(tm.ends)

\* The errors that are transient conflicts.
TransientConflict(err) ==
  err \in {"could not serialize access", "deadlock detected"}

\* C21: ExecuteTransactionWithRetry invokes fn at most maxRetries times; it
\* returns nil exactly at the first run that succeeds, with no run after it;
\* when each of the maxRetries runs fails with a transient conflict it
\* returns an error that names maxRetries and wraps the last run's error.
C21_RetryIsBounded ==
  /\ tm.calls <= tm.maxRetries
  /\ Len(tm.ends) <= tm.maxRetries
  /\ (tm.at = "returned" /\ tm.result = Returned("")) =>
       /\ Runs # {}
       /\ tm.outcomes[Len(tm.ends)].kind = "nil"
       /\ \A k \in Runs : k < Len(tm.ends) => tm.outcomes[k].kind # "nil"
  /\ (\A k \in Runs : tm.outcomes[k].kind = "nil" => tm.at = "returned")
  /\ ( /\ tm.at = "returned" /\ tm.maxRetries >= 1
       /\ \A k \in 1..tm.maxRetries :
            /\ tm.outcomes[k].kind = "err"
            /\ TransientConflict(tm.outcomes[k].err) ) =>
       /\ tm.calls = tm.maxRetries
       /\ tm.result.attempts = tm.maxRetries
       /\ tm.result.wraps = tm.outcomes[tm.maxRetries].err
       /\ tm.result.text = "transaction failed after attempts"

\* A call has returned the wrapped error after MaxRetries failed runs.
C21_Witness ==
  /\ tm.at = "returned" /\ tm.maxRetries = MaxRetries
  /\ tm.calls = MaxRetries
  /\ tm.result.attempts = MaxRetries
  /\ tm.result.wraps = "deadlock detected"

\* C22: when fn fails with an error that is no transient conflict, fn has
\* been run once and the call returns that error.
C22_OnlyConflictsAreRetried ==
  tm.at = "returned" =>
    \A k \in Runs :
      (tm.outcomes[k].kind = "err" /\ ~TransientConflict(tm.outcomes[k].err))
        => /\ k = Len(tm.ends)
           /\ tm.result = Returned(tm.outcomes[k].err)

\* C23: a run of ExecuteTransactionWithOptions in which fn panics ends with
\* the rollback of its transaction, never with its commit, and the panic
\* value of fn leaves the call.
C23_PanicRollsBack ==
  \A k \in Runs :
    tm.outcomes[k].kind = "panic" =>
      /\ tm.ends[k] = "rollback"
      /\ k = Len(tm.ends)
      /\ tm.at = "panicked"
      /\ tm.panic = tm.outcomes[k].panic

\* fn has panicked in a run that followed a failed run.
C23_Witness ==
  /\ tm.at = "panicked" /\ tm.panic = "index out of range"
  /\ Len(tm.ends) = 2 /\ tm.ends[2] = "rollback"

\* CanCancel as the claim C24 states it, and with the day's end included.
C24_BelowADay(status, sinceCreated) ==
  \/ status = "pending"
  \/ status = "processing" /\ sinceCreated < 24

C24_WithinADay(status, sinceCreated) ==
  \/ status = "pending"
  \/ status = "processing" /\ sinceCreated <= 24

\* The order a CancelOrder call of p reads, in the step in which it returns.
C24_OrderRead(p) == {o \in snap[p].orders : o.id = call'[p].orderID}

C25_CancelsPending(p) ==
  /\ Returns(p) /\ call'[p].op = "CancelOrder"
  /\ \E o \in snap[p].orders :
       o.id = call'[p].orderID /\ o.status = "pending"

\* What UpdateOrderStatus(orderID, cancelled) makes of the store in the
\* place of the CancelOrder call of p.
C25_StatusUpdate(p) ==
  ExecuteTransactionWithOptions(
    UpdateOrderStatusBody(Tx(p, "none"), call'[p].orderID,
                          OrderStatusCancelled))

\* The step of p leaves the order, the stock rows and the movements as the
\* status update would, and a call that succeeds adds one movement per order
\* item, referencing the order; typed: each of them is of type in.
C25_SameAsStatusUpdate(p, typed) ==
  LET items == {oi \in snap[p].orderItems : oi.orderId = call'[p].orderID}
  IN /\ db'.orders = C25_StatusUpdate(p).db.orders
     /\ db'.stocks = C25_StatusUpdate(p).db.stocks
     /\ db'.movements = C25_StatusUpdate(p).db.movements
     /\ ret'[p].err = C25_StatusUpdate(p).err
     /\ ret'[p].err = "" =>
          /\ Cardinality(NewMovements) = Cardinality(items)
          /\ \A oi \in items :
               \E m \in NewMovements :
                 /\ m.stockId = oi.stockId /\ m.quantity = oi.quantity
                 /\ m.referenceType = "order"
                 /\ m.referenceId = call'[p].orderID
                 /\ typed => m.type = "in"

\* The two paths agree on the order, the stock rows and the movements, the
\* movements' type left aside.
CancelPathsAgree ==
  [][\A p \in Procs :
       C25_CancelsPending(p) => C25_SameAsStatusUpdate(p, FALSE)]_vars

\* C25: for a pending order CancelOrder leaves the same order status, the
\* same stock rows and the same movements as UpdateOrderStatus(cancelled):
\* one movement per order item, of type in, referencing the order.
C25_CancelEqualsStatusUpdate ==
  [][\A p \in Procs :
       C25_CancelsPending(p) => C25_SameAsStatusUpdate(p, TRUE)]_vars

\* C26: a cart whose status is converted keeps that status in every step
\* of CreateCart, AddItemsToCart (with the GetOrCreateActiveCart it makes),
\* RemoveItemFromCart, UpdateCartItemQuantity, ClearCart and
\* ConvertCartToOrder.
C26_ConvertedIsTerminal ==
  [][\A c \in db.carts :
       c.status = "converted" =>
         /\ \E n \in db'.carts : n.id = c.id
         /\ \A n \in db'.carts : n.id = c.id => n.status = "converted"]_vars

\* ClearCart was called for the converted cart with the status active and
\* has succeeded; the cart is still converted.
C26_Witness ==
  \E p \in Procs :
    /\ pc[p] = "idle" /\ ret[p].op = "ClearCart" /\ ret[p].err = ""
    /\ call[p].status = "active"
    /\ \E c \in db.carts : c.id = call[p].cartID /\ c.status = "converted"

\* C27: every customer has at most one active cart, in every state reached by
\* concurrent CreateCart and AddItemsToCart calls (with the
\* GetOrCreateActiveCart they make).
C27_OneActiveCartPerCustomer ==
  \A customerID \in Customers :
    Cardinality(ActiveCartsOf(db, customerID)) <= 1

\* C28: a ConvertCartToOrder call has run its transaction through
\* ExecuteSerializableTransaction, serializable and retried; a call of every
\* other workflow has run it through ExecuteTransaction, repeatable read.
C28_ConversionIsSerializable ==
  \A p \in Procs :
    (pc[p] = "idle" /\ ret[p].profile # NoProfile) =>
      IF ret[p].op = "ConvertCartToOrder"
        THEN /\ ret[p].profile.isoLevel = "Serializable"
             /\ ret[p].profile.maxRetries > 0
        ELSE ret[p].profile.isoLevel = "RepeatableRead"

\* The cart-side workflows.
C29_CartOps ==
  {"AddItemsToCart", "RemoveItemFromCart", "UpdateCartItemQuantity",
   "ClearCart"}

\* The type the movements of the returning call of p are to have: reserve
\* when the call makes the reservation grow, release when it makes it shrink.
C29_Type(p) ==
  CASE call'[p].op = "AddItemsToCart" -> "reserve"
    [] call'[p].op = "UpdateCartItemQuantity" ->
         IF \E ci \in snap[p].cartItems :
              ci.id = call'[p].itemID /\ call'[p].newQuantity > ci.quantity
           THEN "reserve" ELSE "release"
    [] OTHER -> "release"

\* The carts the movements of the returning call of p may reference: the
\* cart of the call, or for AddItemsToCart with a cart that is not active
\* the customer's active cart.
C29_Carts(p) ==
  IF /\ call'[p].op = "AddItemsToCart"
     /\ \E c \in snap[p].carts :
          c.id = call'[p].cartID /\ c.status # "active"
    THEN {c.id : c \in ActiveCartsOf(db', call'[p].customerID)}
    ELSE {call'[p].cartID}

\* C29: every movement a cart-side call persists has the type that matches
\* the change (reserve for AddItemsToCart and a quantity increase, release
\* for RemoveItemFromCart, a quantity decrease and ClearCart), the reference
\* type cart and the cart's id as its reference.
C29_CartMovementsAreTyped ==
  [][\A p \in Procs :
       (Returns(p) /\ call'[p].op \in C29_CartOps) =>
         \A m \in NewMovements :
           /\ m.type = C29_Type(p)
           /\ m.referenceType = "cart"
           /\ m.referenceId \in C29_Carts(p)]_vars

\* C30: when ProcessEvent invokes the handler of an event, the event's row
\* is in the store, written in that step with processed = false; no handler
\* has run for an event id without a row; and a ProcessEvent call that
\* leaves the recording step without a new row returns the error of Create
\* and invokes no handler.
C30_RowBeforeHandler ==
  [][/\ \A id \in EventIds :
          handlerRuns'[id] # handlerRuns[id] =>
            \E e \in db'.events : e.id = id /\ ~e.processed
     /\ \A id \in EventIds : handlerRuns[id] > 0 => id \in Recorded(db)
     /\ \A p \in Procs :
          (pc[p] = "lookup" /\ pc'[p] # "lookup"
             /\ db'.events = db.events)
            => /\ pc'[p] = "idle"
               /\ ret'[p].err = "failed to create event"
               /\ handlerRuns' = handlerRuns]_vars

\* A ProcessEvent call has failed to record its event: the event has no row
\* and its handler has not run.
C30_Witness ==
  \E p \in Procs :
    /\ pc[p] = "idle" /\ ret[p].op = "ProcessEvent"
    /\ ret[p].err = "failed to create event"
    /\ call[p].event.id \notin Recorded(db)
    /\ handlerRuns[call[p].event.id] = 0

\* C31: the handler of an event id runs at most once, in every interleaving
\* of the lookup, insert and dispatch steps of concurrent ProcessEvent calls
\* for that id.
C31_HandlerRunsAtMostOnce ==
  \A id \in EventIds : handlerRuns[id] <= 1

\* Two calls for one event id have both passed the lookup before either
\* recorded the event; one has recorded it and runs the handler, the other
\* is about to insert.
C31_Witness ==
  \E p, q \in Procs :
    /\ p # q
    /\ pc[p] \in {"begun", "running"} /\ pc[q] = "lookup"
    /\ call[p].op = "ProcessEvent" /\ call[q].op = "ProcessEvent"
    /\ call[p].event.id = call[q].event.id
    /\ handlerRuns[call[p].event.id] = 1

\* C32: a CancelOrder call that changes the status of the order it read
\* makes a change the transition table allows: whenever CanCancel admits
\* the order, AllowChangeStatus admits the change to cancelled.
C32_CancelIsAllowedChange ==
  [][\A p \in Procs :
       (Returns(p) /\ call'[p].op = "CancelOrder") =>
         \A o \in C24_OrderRead(p) :
           (\E n \in db'.orders : n.id = o.id /\ n.status # o.status)
             => "cancelled" \in AllowedTransitions[o.status]]_vars

\* C33: a successful RemoveItemFromCart of a cart item with quantity q
\* lowers the reservedQuantity of the item's stock row by exactly q, leaves
\* the row's quantity as it was, and deletes the cart item.
C33_RemoveReleasesReservation ==
  [][\A p \in Procs :
       (Returns(p) /\ call'[p].op = "RemoveItemFromCart"
          /\ ret'[p].err = "") =>
         \A item \in {ci \in snap[p].cartItems : ci.id = call'[p].itemID} :
           /\ db'.stocks[item.stockId].reservedQuantity
                = db.stocks[item.stockId].reservedQuantity - item.quantity
           /\ db'.stocks[item.stockId].quantity
                = db.stocks[item.stockId].quantity
           /\ item.id \notin {ci.id : ci \in db'.cartItems}]_vars

\* C34: UpdateCartItemQuantity from quantity o to n fails with insufficient
\* stock and changes nothing when n > o and n - o exceeds quantity -
\* reservedQuantity of the item's stock row; otherwise, when it succeeds, the
\* reservedQuantity changes by exactly n - o, the cart item has quantity n
\* and subtotal n * unitPrice, and exactly one movement is recorded when
\* n # o (none when n = o).
C34_QuantityUpdateIsExact ==
  [][\A p \in Procs :
       (Returns(p) /\ call'[p].op = "UpdateCartItemQuantity") =>
         \A item \in {ci \in snap[p].cartItems :
                        ci.id = call'[p].itemID
                          /\ ci.cartId = call'[p].cartID} :
           LET n == call'[p].newQuantity
               o == item.quantity
               row == snap[p].stocks[item.stockId]
           IN IF n > o /\ n - o > row.quantity - row.reservedQuantity
                THEN ret'[p].err = "insufficient stock" /\ db' = db
                ELSE ret'[p].err = "" =>
                       /\ db'.stocks[item.stockId].reservedQuantity
                            = db.stocks[item.stockId].reservedQuantity + n - o
                       /\ \E ci \in db'.cartItems :
                            /\ ci.id = item.id /\ ci.quantity = n
                            /\ ci.subtotal = n * item.unitPrice
                       /\ Cardinality(NewMovements)
                            = IF n = o THEN 0 ELSE 1]_vars

\* C35: validation failures are detected before any write: when
\* AddItemsToCart or CreateOrder returns an insufficient-stock error, the
\* call has written no cart item, order row, order item, stock update or
\* movement.
C35_ValidationBeforeWrites ==
  [][\A p \in Procs :
       (Returns(p) /\ call'[p].op \in {"AddItemsToCart", "CreateOrder"}
          /\ ret'[p].err = "insufficient stock") =>
         /\ db'.cartItems = db.cartItems
         /\ db'.orders = db.orders
         /\ db'.orderItems = db.orderItems
         /\ db'.stocks = db.stocks
         /\ db'.movements = db.movements]_vars

\* C36: RemoveItemFromCart and UpdateCartItemQuantity called on a converted
\* or abandoned cart modify neither that cart's items nor the reservation of
\* any stock row.
C36_OnlyActiveCartsChange ==
  [][\A p \in Procs :
       (/\ Returns(p)
        /\ call'[p].op \in {"RemoveItemFromCart", "UpdateCartItemQuantity"}
        /\ \E c \in snap[p].carts :
             /\ c.id = call'[p].cartID
             /\ c.status \in {CartStatusConverted, "abandoned"}) =>
         /\ {ci \in db'.cartItems : ci.cartId = call'[p].cartID}
              = {ci \in db.cartItems : ci.cartId = call'[p].cartID}
         /\ \A id \in StockIds :
              db'.stocks[id].reservedQuantity
                = db.stocks[id].reservedQuantity]_vars

\* C37: a call whose transaction was not committed does not return nil;
\* in particular, when Commit fails after fn returned no error, the call
\* returns an error.
C37_CommitFailureIsReported ==
  [][\A p \in Procs :
       (Returns(p) /\ ~ret'[p].committed) => ret'[p].err # ""]_vars

\* C38: a successful AddItemsToCart with two items on the same stock row,
\* both fitting in what is available, raises the row's reservedQuantity by
\* the sum of the two quantities: the second update is not skipped for the
\* updatedAt token the first one changed.
C38_SameRowItemsAddUp ==
  [][\A p \in Procs :
       (/\ Returns(p) /\ call'[p].op = "AddItemsToCart"
        /\ ret'[p].err = ""
        /\ Len(call'[p].items) = 2
        /\ call'[p].items[1].stockId = call'[p].items[2].stockId
        /\ call'[p].items[1].quantity + call'[p].items[2].quantity
             <= db.stocks[call'[p].items[1].stockId].quantity
                  - db.stocks[call'[p].items[1].stockId].reservedQuantity) =>
         /\ call'[p].items[1].stockId \notin ret'[p].skipped
         /\ db'.stocks[call'[p].items[1].stockId].reservedQuantity
              = db.stocks[call'[p].items[1].stockId].reservedQuantity
                  + call'[p].items[1].quantity
                  + call'[p].items[2].quantity]_vars

\* C39: cancelling or refunding never lowers availability: for an order
\* made by ConvertCartToOrder, after a successful CancelOrder or
\* UpdateOrderStatus to cancelled or refunded, quantity - reservedQuantity of
\* every stock row the order's items reference is at least what it was
\* before, and reservedQuantity is not negative.
C39_RestoreNeverLowersAvailability ==
  [][\A p \in Procs :
       (/\ Returns(p) /\ ret'[p].err = ""
        /\ \/ call'[p].op = "CancelOrder"
           \/ /\ call'[p].op = "UpdateOrderStatus"
              /\ call'[p].newStatus
                   \in {OrderStatusCancelled, OrderStatusRefunded}
        /\ \E o \in snap[p].orders :
             o.id = call'[p].orderID /\ o.cartId # 0) =>
         \A oi \in {i \in snap[p].orderItems :
                      i.orderId = call'[p].orderID} :
           /\ db'.stocks[oi.stockId].quantity
                - db'.stocks[oi.stockId].reservedQuantity
                >= db.stocks[oi.stockId].quantity
                     - db.stocks[oi.stockId].reservedQuantity
           /\ db'.stocks[oi.stockId].reservedQuantity >= 0]_vars

\* The statuses no entry of AllowedTransitions names.
C40_Unlisted == {OrderStatusProcessing, OrderStatusAwaitingStock}

\* C40: processing and awaiting_stock are outside the state machine: no
\* UpdateOrderStatus call puts an order in one of them (so from pending no
\* sequence of calls does), and a call for an order that is in one of them
\* is refused as an invalid transition, whatever the status asked for, and
\* leaves the order as it is.
C40_UnlistedStatusesAreOutside ==
  [][\A p \in Procs :
       (Returns(p) /\ call'[p].op = "UpdateOrderStatus") =>
         /\ \A n \in db'.orders :
              n.status \in C40_Unlisted => n \in db.orders
         /\ \A o \in C24_OrderRead(p) :
              (o.status \in C40_Unlisted
                 /\ ret'[p].err # "failed to get order")
                => /\ ret'[p].err = "invalid status transition"
                   /\ db'.orders = db.orders]_vars

\* UpdateOrderStatus has been refused for an order in processing or
\* awaiting_stock.
C40_Witness ==
  \E p \in Procs :
    /\ pc[p] = "idle" /\ ret[p].op = "UpdateOrderStatus"
    /\ ret[p].err = "invalid status transition"
    /\ \E o \in db.orders : o.id = call[p].orderID
                               /\ o.status \in C40_Unlisted

====
